---- MODULE Spec2Model ----
(***************************************************************************)
(* Semantica / local-doc-search: the Vector Index (FAISSIndexer), the      *)
(* Metadata Store (MetadataStore, a SQLite catalog) and the orchestrator   *)
(* (DocumentSearchEngine) that ties them together.                         *)
(*                                                                         *)
(* Abstractions:                                                           *)
(*  - a path is a tuple of characters, so that SQL LIKE 'dir%' is a prefix  *)
(*    test on tuples;                                                      *)
(*  - a file on disk is its stat (mtime, size); its text is abstracted to   *)
(*    the number of chunks it yields, which is its size;                   *)
(*  - md5 is injective on the strings hashed here, so a digest is modelled *)
(*    by the tuple of the values that were formatted into the string;      *)
(*  - a vector is a tuple of integers; the index type is always "Flat"     *)
(*    (the only type the constructor ever creates).                        *)
(***************************************************************************)
EXTENDS Integers, Sequences, FiniteSets, TLC

VARIABLES disk,       \* the file system: path -> NoFile or [mtime, size]
          indexer,    \* the FAISSIndexer object (in memory)
          store,      \* the MetadataStore as seen through its connection
          committed,  \* the MetadataStore as committed to metadata.db
          artifacts,  \* faiss.index, metadata.json, chunks.pkl, index_config.json
          pc,         \* position of the orchestrator inside an operation
          work,       \* locals of the operation in progress
          last,       \* what the last operation did (observation only)
          crashes     \* how many times the process has stopped

vars == <<disk, indexer, store, committed, artifacts, pc, work, last, crashes>>

----------------------------------------------------------------------------
(* Bounds *)

MaxMtime == 2
MaxSize == 1
MaxVectors == 2
MaxBatch == 2
IdxMaxVectors == 3
IdxSize == 1
EmbeddingDim == 2
MaxCrashes == 1
PersistMaxVectors == 3
StoreMaxMtime == 2
TxMaxChunks == 2
DispMaxRequests == 3

----------------------------------------------------------------------------
(* Values *)

\* an absent file is the empty tuple, a present one the 1-tuple of its content;
\* likewise None and an optional value
NoFile == <<>>
File(content) == <<content>>
None == <<>>
NoDoc == <<>>

\* a path: characters, "/" between segments, the extension as the last element
Dir == <<"d">>
Paths == {<<"d", "/", "a", ".txt">>, <<"d", "/", "b", ".txt">>}

\* stand-ins for DocumentProcessor.supported_extensions and .text_filenames
supported_extensions == {".txt", ".md"}
text_filenames == {<<"M">>}
KnownSuffixes == supported_extensions \cup {".bin"}

FileStats == [mtime : 1..MaxMtime, size : 0..MaxSize]

Range(s) == {s[i] : i \in 1..Len(s)}

RECURSIVE SeqsUpTo(_, _)
SeqsUpTo(S, n) ==
    IF n = 0 THEN {<<>>}
    ELSE LET shorter == SeqsUpTo(S, n - 1)
         IN shorter \cup {Append(s, x) : s \in {t \in shorter : Len(t) = n - 1}, x \in S}

RECURSIVE Concat(_)
Concat(ss) == IF ss = <<>> THEN <<>> ELSE Head(ss) \o Concat(Tail(ss))

----------------------------------------------------------------------------
(* Document pipeline: identities and chunks *)

\* md5 of f"{file_path}_{st_mtime}_{st_size}"
_generate_document_id(file_path, stat) == <<file_path, stat.mtime, stat.size>>

ChunkId_document_only(document_id, i) == <<document_id, 0>>

\* md5 of f"{document_id}_{i}"
ChunkId(document_id, i) == <<document_id, i>>

\* the text of chunk i of a file version, as a number
ChunkContent(stat, i) == (stat.mtime * 10 + stat.size) * 10 + i

DocumentChunk(file_path, stat, i) ==
    [content     |-> ChunkContent(stat, i),
     metadata    |-> [file_path |-> file_path, chunk_index |-> i],
     chunk_id    |-> ChunkId(_generate_document_id(file_path, stat), i),
     document_id |-> _generate_document_id(file_path, stat)]

\* the chunk list of one file: one chunk per unit of size, none for an empty text
_create_chunks(file_path, stat) ==
    [k \in 1..stat.size |-> DocumentChunk(file_path, stat, k - 1)]

\* the embedding capability: a vector of the given dimension for a text
Embedding(content, dim) == [j \in 1..dim |-> content + j]

generate_embeddings(texts, dim) == [i \in 1..Len(texts) |-> Embedding(texts[i], dim)]

----------------------------------------------------------------------------
(* Vector Index: FAISSIndexer *)

EmptyMetadata == [total_documents |-> 0, total_chunks |-> 0]

\* create_new_index("Flat"): a fresh faiss index, fresh metadata, no chunks
create_new_index(ix) ==
    [ix EXCEPT !.index = <<>>,
               !.metadata = EmptyMetadata,
               !.chunks = <<>>,
               !.document_ids = {}]

NewIndexer(dim) ==
    [index |-> <<>>, metadata |-> EmptyMetadata, chunks |-> <<>>,
     document_ids |-> {}, embedding_dim |-> dim]

get_index_size(ix) == Len(ix.index)

add_documents_raises(ix, chunks, embeddings) ==
    \/ Len(chunks) # Len(embeddings)
    \/ /\ Len(chunks) # 0
       /\ Len(embeddings[1]) # ix.embedding_dim

add_documents_dimcheck_late(ix, chunks, embeddings) ==
    IF Len(chunks) # Len(embeddings) THEN ix
    ELSE IF Len(chunks) = 0 THEN ix
    ELSE IF Len(embeddings[1]) # ix.embedding_dim
         THEN [ix EXCEPT !.index = ix.index \o embeddings]
    ELSE [ix EXCEPT
            !.index = ix.index \o embeddings,
            !.chunks = ix.chunks \o chunks,
            !.document_ids = ix.document_ids \cup {c.document_id : c \in Range(chunks)},
            !.metadata = [total_documents |->
                              Cardinality(ix.document_ids
                                          \cup {c.document_id : c \in Range(chunks)}),
                          total_chunks |-> Len(ix.chunks) + Len(chunks)]]

\* the indexer after add_documents(chunks, embeddings), raising or not
add_documents(ix, chunks, embeddings) ==
    IF Len(chunks) # Len(embeddings) THEN ix
    ELSE IF Len(chunks) = 0 THEN ix
    ELSE IF Len(embeddings[1]) # ix.embedding_dim THEN ix
    ELSE [ix EXCEPT
            !.index = ix.index \o embeddings,
            !.chunks = ix.chunks \o chunks,
            !.document_ids = ix.document_ids \cup {c.document_id : c \in Range(chunks)},
            !.metadata = [total_documents |->
                              Cardinality(ix.document_ids
                                          \cup {c.document_id : c \in Range(chunks)}),
                          total_chunks |-> Len(ix.chunks) + Len(chunks)]]

RECURSIVE KeepFrom(_, _, _)
\* the ascending positions i >= from of chunks whose document is not document_id
KeepFrom(chunks, document_id, from) ==
    IF from > Len(chunks) THEN <<>>
    ELSE IF chunks[from].document_id # document_id
         THEN <<from>> \o KeepFrom(chunks, document_id, from + 1)
         ELSE KeepFrom(chunks, document_id, from + 1)

\* indices_to_keep of remove_document
indices_to_keep(ix, document_id) == KeepFrom(ix.chunks, document_id, 1)

\* old_embeddings[indices_to_keep] fails when a kept position has no vector
remove_document_raises(ix, document_id) ==
    LET keep == indices_to_keep(ix, document_id)
    IN /\ document_id \in ix.document_ids
       /\ Len(keep) # Len(ix.chunks)
       /\ Len(keep) > 0
       /\ \E k \in 1..Len(keep) : keep[k] > Len(ix.index)

remove_document_total_stale(ix, document_id) ==
    LET keep == indices_to_keep(ix, document_id)
    IN IF document_id \notin ix.document_ids THEN ix
       ELSE IF Len(keep) = Len(ix.chunks) THEN ix
       ELSE IF remove_document_raises(ix, document_id) THEN ix
       ELSE LET new_chunks == [k \in 1..Len(keep) |-> ix.chunks[keep[k]]]
                new_embeddings == [k \in 1..Len(keep) |-> ix.index[keep[k]]]
                fresh == create_new_index(ix)
            IN [fresh EXCEPT
                  !.index = new_embeddings,
                  !.chunks = new_chunks,
                  !.document_ids = fresh.document_ids \ {document_id},
                  !.metadata = [total_documents |->
                                    Cardinality(fresh.document_ids \ {document_id}),
                                total_chunks |-> Len(ix.chunks)]]

\* the indexer after remove_document(document_id)
remove_document(ix, document_id) ==
    LET keep == indices_to_keep(ix, document_id)
    IN IF document_id \notin ix.document_ids THEN ix
       ELSE IF Len(keep) = Len(ix.chunks) THEN ix
       ELSE IF remove_document_raises(ix, document_id) THEN ix
       ELSE LET new_chunks == [k \in 1..Len(keep) |-> ix.chunks[keep[k]]]
                new_embeddings == [k \in 1..Len(keep) |-> ix.index[keep[k]]]
                \* create_new_index also resets chunks and document_ids
                fresh == create_new_index(ix)
            IN [fresh EXCEPT
                  !.index = new_embeddings,
                  !.chunks = new_chunks,
                  !.document_ids = fresh.document_ids \ {document_id},
                  !.metadata = [total_documents |->
                                    Cardinality(fresh.document_ids \ {document_id}),
                                total_chunks |-> Len(new_chunks)]]

DistinctDocuments(ix) == {ix.chunks[i].document_id : i \in 1..Len(ix.chunks)}

get_statistics(ix) ==
    [total_documents |-> Cardinality(ix.document_ids),
     total_chunks |-> Len(ix.chunks),
     index_size |-> Len(ix.index),
     embedding_dimension |-> ix.embedding_dim]

NoArtifacts ==
    [index_path |-> NoFile, metadata_path |-> NoFile,
     chunks_path |-> NoFile, config_path |-> NoFile]

\* clear_index: a fresh index in memory, the four artifact files unlinked
clear_index(ix) == create_new_index(ix)

\* save_index writes faiss.index, metadata.json, chunks.pkl and index_config.json
\* in this order; WriteArtifact is the k-th of these writes
WriteArtifact(art, ix, k) ==
    IF k = 1 THEN [art EXCEPT !.index_path = File(ix.index)]
    ELSE IF k = 2 THEN [art EXCEPT !.metadata_path = File(ix.metadata)]
    ELSE IF k = 3 THEN [art EXCEPT !.chunks_path = File(ix.chunks)]
    ELSE [art EXCEPT !.config_path = File([embedding_dim |-> ix.embedding_dim])]

save_index_stale_chunks(art, ix) ==
    WriteArtifact(WriteArtifact(WriteArtifact(art, ix, 1), ix, 2), ix, 4)

save_index(art, ix) ==
    WriteArtifact(WriteArtifact(WriteArtifact(WriteArtifact(art, ix, 1), ix, 2), ix, 3), ix, 4)

\* load_index raises when an artifact it opens is missing
load_index_raises(art) ==
    \/ art.index_path = NoFile
    \/ art.metadata_path = NoFile
    \/ art.chunks_path = NoFile

load_index(art, ix) ==
    [index |-> art.index_path[1],
     metadata |-> art.metadata_path[1],
     chunks |-> art.chunks_path[1],
     embedding_dim |-> IF art.config_path # NoFile
                       THEN art.config_path[1].embedding_dim ELSE ix.embedding_dim,
     document_ids |-> {art.chunks_path[1][i].document_id : i \in 1..Len(art.chunks_path[1])}]

\* FAISSIndexer.__init__ followed by _load_or_create_index
_load_or_create_index(art, dim) ==
    IF art.index_path # NoFile THEN load_index(art, NewIndexer(dim))
    ELSE create_new_index(NewIndexer(dim))

\* squared Euclidean distance of IndexFlatL2
RECURSIVE L2(_, _, _)
L2(u, v, j) ==
    IF j > Len(u) THEN 0 ELSE (u[j] - v[j]) * (u[j] - v[j]) + L2(u, v, j + 1)

Nearest_storage_order(index, query_embedding, k) == [r \in 1..k |-> r]

\* the positions of the k nearest vectors, nearest first (ties: lower position)
Nearest(index, query_embedding, k) ==
    LET D(i) == L2(index[i], query_embedding, 1)
        Before(i) == Cardinality({j \in 1..Len(index) :
                                    D(j) < D(i) \/ (D(j) = D(i) /\ j < i)})
    IN [r \in 1..k |-> CHOOSE i \in 1..Len(index) : Before(i) = r - 1]

Min(a, b) == IF a < b THEN a ELSE b

indexer_search_raises(ix, query_embedding) ==
    Len(ix.index) # 0 /\ Len(query_embedding) # ix.embedding_dim

\* FAISSIndexer.search: (chunk, distance) pairs; score is 1 / (1 + distance)
indexer_search(ix, query_embedding, k) ==
    IF Len(ix.index) = 0 \/ indexer_search_raises(ix, query_embedding) THEN <<>>
    ELSE LET indices == Nearest(ix.index, query_embedding, Min(k, Len(ix.index)))
             Live(i) == i <= Len(ix.chunks)
             hits == SelectSeq(indices, Live)
         IN [r \in 1..Len(hits) |->
                [chunk |-> ix.chunks[hits[r]],
                 distance |-> L2(ix.index[hits[r]], query_embedding, 1)]]

----------------------------------------------------------------------------
(* Metadata Store: MetadataStore over SQLite *)
(* store.files, store.chunks and store.folders are the three tables as the  *)
(* connection sees them; a commit copies them to `committed`.               *)

IsPrefix(a, b) == Len(a) <= Len(b) /\ \A i \in 1..Len(a) : a[i] = b[i]

\* Path.rglob: the path lies below the directory
IsUnder(directory, path) == IsPrefix(directory \o <<"/">>, path)

\* the position after the last "/" of a path
RECURSIVE NameStart(_, _)
NameStart(path, i) ==
    IF i = 0 THEN 1 ELSE IF path[i] = "/" THEN i + 1 ELSE NameStart(path, i - 1)

\* Path.name and Path.suffix
PathName(path) == SubSeq(path, NameStart(path, Len(path)), Len(path))
PathSuffix(path) ==
    IF Len(PathName(path)) > 1 /\ path[Len(path)] \in KnownSuffixes
    THEN path[Len(path)] ELSE ""

\* any(part.startswith('.') for part in file_path.parts)
HasHiddenPart(path) ==
    \E i \in 1..Len(path) :
        /\ i = 1 \/ path[i - 1] = "/"
        /\ path[i] \in {"."} \cup KnownSuffixes

FileRow(file_path, stat, document_id, content_hash) ==
    [file_path |-> file_path, file_size |-> stat.size, modified_time |-> stat.mtime,
     document_id |-> document_id, content_hash |-> content_hash]

RowsOf(st, file_path) == {r \in st.files : r.file_path = file_path}

get_file_status_mtime_only(st, dsk, file_path, content_hash, file_size, modified_time) ==
    IF RowsOf(st, file_path) = {} THEN "new"
    ELSE LET result == CHOOSE r \in RowsOf(st, file_path) : TRUE
             given == file_size # None /\ modified_time # None
         IN IF ~given /\ dsk[file_path] = NoFile THEN "deleted"
            ELSE LET current_mtime == IF given THEN modified_time[1] ELSE dsk[file_path][1].mtime
                     current_hash == IF given THEN content_hash ELSE None
                 IN IF /\ current_hash # None
                       /\ result.content_hash # None
                       /\ current_hash # result.content_hash
                    THEN "modified"
                    ELSE IF current_mtime # result.modified_time
                         THEN "modified"
                         ELSE "unchanged"

\* get_file_status; file_size/modified_time None means "stat the file"
get_file_status(st, dsk, file_path, content_hash, file_size, modified_time) ==
    IF RowsOf(st, file_path) = {} THEN "new"
    ELSE LET result == CHOOSE r \in RowsOf(st, file_path) : TRUE
             given == file_size # None /\ modified_time # None
         IN IF ~given /\ dsk[file_path] = NoFile THEN "deleted"
            ELSE LET current_mtime == IF given THEN modified_time[1] ELSE dsk[file_path][1].mtime
                     current_size == IF given THEN file_size[1] ELSE dsk[file_path][1].size
                     current_hash == IF given THEN content_hash ELSE None
                 IN IF /\ current_hash # None
                       /\ result.content_hash # None
                       /\ current_hash # result.content_hash
                    THEN "modified"
                    ELSE IF \/ current_mtime # result.modified_time
                            \/ current_size # result.file_size
                         THEN "modified"
                         ELSE "unchanged"

\* Path(directory): pathlib drops a leading "./" and a trailing "/"
RECURSIVE PathOf(_)
PathOf(directory) ==
    IF Len(directory) > 2 /\ directory[1] = "." /\ directory[2] = "/"
    THEN PathOf(SubSeq(directory, 3, Len(directory)))
    ELSE IF Len(directory) > 1 /\ directory[Len(directory)] = "/"
    THEN PathOf(SubSeq(directory, 1, Len(directory) - 1))
    ELSE directory

\* the enumeration loop of get_changed_files over Path(directory).rglob("*")
current_files(dsk, directory, extensions, names) ==
    {p \in DOMAIN dsk :
        /\ dsk[p] # NoFile
        /\ IsUnder(PathOf(directory), p)
        /\ ~HasHiddenPart(p)
        /\ ~(/\ extensions # {}
             /\ PathSuffix(p) \notin extensions
             /\ names # {}
             /\ PathName(p) \notin names)}

\* SELECT file_path FROM files WHERE file_path LIKE 'directory%'
indexed_files(st, directory) ==
    {r.file_path : r \in {q \in st.files : IsPrefix(directory, q.file_path)}}

get_changed_files_two_ifs(st, dsk, directory, extensions, names) ==
    LET current == current_files(dsk, directory, extensions, names)
        Status(p) == get_file_status(st, dsk, p, None, None, None)
    IN [new_files       |-> {p \in current : Status(p) = "new"},
        modified_files  |-> {p \in current : Status(p) # "new"},
        unchanged_files |-> {p \in current : Status(p) = "unchanged"},
        deleted_files   |-> indexed_files(st, directory) \ current]

get_changed_files(st, dsk, directory, extensions, names) ==
    LET current == current_files(dsk, directory, extensions, names)
        Status(p) == get_file_status(st, dsk, p, None, None, None)
    IN [new_files       |-> {p \in current : Status(p) = "new"},
        modified_files  |-> {p \in current : Status(p) = "modified"},
        unchanged_files |-> {p \in current : Status(p) = "unchanged"},
        deleted_files   |-> indexed_files(st, directory) \ current]

RECURSIVE InsertChunks(_, _, _, _, _)
\* the INSERT loop of update_file from the k-th pair on; a chunk_id that is
\* already a row violates the PRIMARY KEY and raises with the earlier rows kept
InsertChunks(rows, document_id, chunk_ids, vector_indices, k) ==
    IF k > Len(chunk_ids) \/ k > Len(vector_indices)
    THEN [chunks |-> rows, raised |-> FALSE]
    ELSE IF \E r \in rows : r.chunk_id = chunk_ids[k]
         THEN [chunks |-> rows, raised |-> TRUE]
         ELSE InsertChunks(rows \cup {[chunk_id |-> chunk_ids[k],
                                       document_id |-> document_id,
                                       vector_index |-> vector_indices[k]]},
                           document_id, chunk_ids, vector_indices, k + 1)

update_file_stale_mtime(st, dsk, file_path, document_id, chunk_ids, vector_indices) ==
    IF dsk[file_path] = NoFile THEN [store |-> st, raised |-> TRUE]
    ELSE LET old_docs == {r.document_id : r \in RowsOf(st, file_path)}
             kept == {c \in st.chunks : c.document_id \notin old_docs}
             row == FileRow(file_path, [dsk[file_path][1] EXCEPT !.mtime = 0],
                            document_id, None)
             ins == InsertChunks(kept, document_id, chunk_ids, vector_indices, 1)
         IN [store |-> [st EXCEPT !.files = (st.files \ RowsOf(st, file_path)) \cup {row},
                                  !.chunks = ins.chunks],
             raised |-> ins.raised]

\* update_file: the connection's view afterwards and whether it raised
\* (it commits only when it did not raise)
update_file(st, dsk, file_path, document_id, chunk_ids, vector_indices) ==
    IF dsk[file_path] = NoFile THEN [store |-> st, raised |-> TRUE]
    ELSE LET old_docs == {r.document_id : r \in RowsOf(st, file_path)}
             kept == {c \in st.chunks : c.document_id \notin old_docs}
             row == FileRow(file_path, dsk[file_path][1], document_id, None)
             ins == InsertChunks(kept, document_id, chunk_ids, vector_indices, 1)
         IN [store |-> [st EXCEPT !.files = (st.files \ RowsOf(st, file_path)) \cup {row},
                                  !.chunks = ins.chunks],
             raised |-> ins.raised]

remove_file_keep_chunks(st, file_path) ==
    IF RowsOf(st, file_path) = {} THEN [store |-> st, document_id |-> None]
    ELSE LET document_id == (CHOOSE r \in RowsOf(st, file_path) : TRUE).document_id
         IN [store |-> [st EXCEPT !.files = st.files \ RowsOf(st, file_path)],
             document_id |-> document_id]

\* remove_file: the connection's view afterwards and the returned document_id
remove_file(st, file_path) ==
    IF RowsOf(st, file_path) = {} THEN [store |-> st, document_id |-> None]
    ELSE LET document_id == (CHOOSE r \in RowsOf(st, file_path) : TRUE).document_id
         IN [store |-> [st EXCEPT !.chunks = {c \in st.chunks : c.document_id # document_id},
                                  !.files = st.files \ RowsOf(st, file_path)],
             document_id |-> document_id]

update_folder_stats(st, folder_path, total_files) ==
    [st EXCEPT !.folders = {f \in st.folders : f.folder_path # folder_path}
                           \cup {[folder_path |-> folder_path, total_files |-> total_files]}]

clear_all_keep_chunks(st) == [files |-> {}, chunks |-> st.chunks, folders |-> {}]

clear_all(st) == [files |-> {}, chunks |-> {}, folders |-> {}]

----------------------------------------------------------------------------
(* Observation of the last operation *)

NoObs ==
    [op |-> "init", raised |-> FALSE, arg |-> NoDoc,
     n_chunks |-> 0, n_embeddings |-> 0, dim |-> 0,
     removed |-> 0, embed_calls |-> 0, inserted |-> 0, persisted |-> FALSE,
     deleted |-> {}, vanished |-> {}, vanished_chunks |-> 0, before_total |-> 0,
     repeat |-> FALSE, results |-> <<>>, after_save |-> FALSE, index_reads |-> 0]

EmptyStore == [files |-> {}, chunks |-> {}, folders |-> {}]

NoWork == <<>>

InitCommon ==
    /\ disk = [p \in Paths |-> NoFile]
    /\ indexer = NewIndexer(EmbeddingDim)
    /\ store = EmptyStore
    /\ committed = EmptyStore
    /\ artifacts = NoArtifacts
    /\ pc = "idle"
    /\ work = NoWork
    /\ last = NoObs
    /\ crashes = 0

----------------------------------------------------------------------------
(* Search Orchestrator: DocumentSearchEngine, one operation per action.     *)
(* The engine is built with its defaults: a Metadata Store is present       *)
(* (enable_incremental) and no stop callback is installed.                  *)

Perms(S) ==
    {f \in [1..Cardinality(S) -> S] : \A i, j \in 1..Cardinality(S) : i # j => f[i] # f[j]}

\* process_file on an existing, supported file: its chunk list
process_file(dsk, file_path) == _create_chunks(file_path, dsk[file_path][1])

\* the filter of process_directory
valid_files(dsk, directory) ==
    {p \in DOMAIN dsk :
        /\ dsk[p] # NoFile
        /\ IsUnder(directory, p)
        /\ ~HasHiddenPart(p)
        /\ \/ PathSuffix(p) \in supported_extensions
           \/ PathName(p) \in text_filenames}

\* the second filter of process_directory_incremental
files_to_process(change_set) ==
    {p \in change_set.new_files \cup change_set.modified_files :
        \/ PathSuffix(p) \in supported_extensions
        \/ PathName(p) \in text_filenames}

\* all_chunks for one completion order of the files
all_chunks(dsk, order) == Concat([k \in 1..Len(order) |-> process_file(dsk, order[k])])

RECURSIVE PositionsFrom(_, _, _)
\* the ascending positions i >= from of the chunks that come from file_path
PositionsFrom(chunks, file_path, from) ==
    IF from > Len(chunks) THEN <<>>
    ELSE IF chunks[from].metadata.file_path = file_path
         THEN <<from>> \o PositionsFrom(chunks, file_path, from + 1)
         ELSE PositionsFrom(chunks, file_path, from + 1)

RECURSIVE FirstSeen(_, _, _)
\* the keys of file_chunks in insertion order
FirstSeen(chunks, from, seen) ==
    IF from > Len(chunks) THEN <<>>
    ELSE IF chunks[from].metadata.file_path \in seen
         THEN FirstSeen(chunks, from + 1, seen)
         ELSE <<chunks[from].metadata.file_path>>
              \o FirstSeen(chunks, from + 1, seen \cup {chunks[from].metadata.file_path})

\* file_chunks[file_path] of index_directory_incremental
file_chunks(chunks, start_idx, file_path) ==
    LET pos == PositionsFrom(chunks, file_path, 1)
    IN [document_id |-> chunks[pos[1]].document_id,
        chunk_ids |-> [j \in 1..Len(pos) |-> chunks[pos[j]].chunk_id],
        vector_indices |-> [j \in 1..Len(pos) |-> start_idx + pos[j] - 1]]

RECURSIVE RecordFiles(_, _, _, _, _, _, _)
\* the update_file loop from the k-th file on: the connection's view, what is
\* committed, and whether an update_file raised (which ends the loop)
RecordFiles(st, com, dsk, chunks, start_idx, order, k) ==
    IF k > Len(order) THEN [store |-> st, committed |-> com, raised |-> FALSE]
    ELSE LET info == file_chunks(chunks, start_idx, order[k])
             u == update_file(st, dsk, order[k], info.document_id,
                              info.chunk_ids, info.vector_indices)
         IN IF u.raised THEN [store |-> u.store, committed |-> com, raised |-> TRUE]
            ELSE RecordFiles(u.store, u.store, dsk, chunks, start_idx, order, k + 1)

RECURSIVE RemoveFiles(_, _)
\* the remove_file loop over change_info['deleted']
RemoveFiles(st, deleted) ==
    IF deleted = {} THEN st
    ELSE LET file_path == CHOOSE x \in deleted : TRUE
         IN RemoveFiles(remove_file(st, file_path).store, deleted \ {file_path})

ChunksOfFiles(chunks, files) ==
    Cardinality({i \in 1..Len(chunks) : chunks[i].metadata.file_path \in files})

Contents(chunks) == [i \in 1..Len(chunks) |-> chunks[i].content]

WriteFile ==
    \E p \in Paths, stat \in FileStats :
        /\ pc = "idle"
        /\ disk[p] # File(stat)
        /\ disk' = [disk EXCEPT ![p] = File(stat)]
        /\ last' = [NoObs EXCEPT !.op = "write_file"]
        /\ UNCHANGED <<indexer, store, committed, artifacts, pc, work, crashes>>

DeleteFile ==
    \E p \in Paths :
        /\ pc = "idle"
        /\ disk[p] # NoFile
        /\ disk' = [disk EXCEPT ![p] = NoFile]
        /\ last' = [NoObs EXCEPT !.op = "delete_file"]
        /\ UNCHANGED <<indexer, store, committed, artifacts, pc, work, crashes>>

\* index_directory_incremental for one completion order of the pipeline:
\* the engine's state afterwards and what the call did; dsk is the
\* filesystem the pipeline reads, dsk_record the one the update_file loop stats
index_directory_incremental_on(ix, st, com, art, dsk, dsk_record, order, embeddings) ==
    LET change_set == get_changed_files(st, dsk, Dir, supported_extensions, text_filenames)
        chunks == all_chunks(dsk, order)
        deleted == change_set.deleted_files
        st1 == RemoveFiles(st, deleted)
        com1 == IF deleted # {} THEN st1 ELSE com
        no_changes == chunks = <<>> /\ deleted = {}
        start_idx == get_index_size(ix)
        add_raised == chunks # <<>> /\ add_documents_raises(ix, chunks, embeddings)
        ix1 == IF chunks # <<>> THEN add_documents(ix, chunks, embeddings)
               ELSE ix
        rec == IF chunks # <<>> /\ ~add_raised
               THEN RecordFiles(st1, com1, dsk_record, chunks, start_idx,
                                FirstSeen(chunks, 1, {}), 1)
               ELSE [store |-> st1, committed |-> com1, raised |-> FALSE]
        raised == add_raised \/ rec.raised
        completed == ~no_changes /\ ~raised
        total_files == Cardinality(change_set.new_files \cup change_set.modified_files
                                   \cup change_set.unchanged_files)
        st2 == IF completed THEN update_folder_stats(rec.store, Dir, total_files)
               ELSE rec.store
    IN [indexer |-> ix1,
        store |-> st2,
        committed |-> IF completed THEN st2 ELSE rec.committed,
        artifacts |-> IF completed THEN save_index(art, ix1) ELSE art,
        removed_store |-> st1, removed_committed |-> com1,
        recorded_store |-> rec.store, recorded_committed |-> rec.committed,
        chunks |-> chunks, deleted |-> deleted, raised |-> raised,
        completed |-> completed]

\* the same on a filesystem that does not change during the call
index_directory_incremental_from(ix, st, com, art, dsk, order, embeddings) ==
    index_directory_incremental_on(ix, st, com, art, dsk, dsk, order, embeddings)

\* the same with the embeddings generate_embeddings gives on an empty cache
index_directory_incremental(ix, st, com, art, dsk, order) ==
    index_directory_incremental_from(
        ix, st, com, art, dsk, order,
        generate_embeddings(Contents(all_chunks(dsk, order)), ix.embedding_dim))

IndexDirectoryIncremental ==
    /\ pc = "idle"
    /\ LET change_set == get_changed_files(store, disk, Dir, supported_extensions, text_filenames)
       IN \E order \in Perms(files_to_process(change_set)) :
            LET run == index_directory_incremental(indexer, store, committed, artifacts,
                                                   disk, order)
                vanished == {p \in Paths : RowsOf(store, p) # {} /\ disk[p] = NoFile}
            IN /\ Len(indexer.chunks) + Len(run.chunks) <= MaxVectors
               /\ indexer' = run.indexer
               /\ store' = run.store
               /\ committed' = run.committed
               /\ artifacts' = run.artifacts
               /\ last' = [NoObs EXCEPT
                             !.op = "index_directory_incremental",
                             !.raised = run.raised,
                             !.deleted = run.deleted,
                             !.vanished = vanished,
                             !.vanished_chunks = ChunksOfFiles(indexer.chunks, vanished),
                             !.before_total = indexer.metadata.total_chunks,
                             !.embed_calls = IF run.chunks # <<>> THEN 1 ELSE 0,
                             !.inserted = Len(run.indexer.index) - Len(indexer.index),
                             !.persisted = run.completed,
                             !.repeat = (last.op = "index_directory_incremental"
                                         /\ ~last.raised)]
               /\ UNCHANGED <<disk, pc, work, crashes>>

IndexDirectory ==
    /\ pc = "idle"
    /\ \E order \in Perms(valid_files(disk, Dir)) :
         LET chunks == all_chunks(disk, order)
             embeddings == generate_embeddings(Contents(chunks), indexer.embedding_dim)
             ix1 == add_documents(indexer, chunks, embeddings)
             raised == add_documents_raises(indexer, chunks, embeddings)
             completed == chunks # <<>> /\ ~raised
         IN /\ Len(indexer.chunks) + Len(chunks) <= MaxVectors
            /\ indexer' = ix1
            /\ artifacts' = IF completed THEN save_index(artifacts, ix1) ELSE artifacts
            /\ last' = [NoObs EXCEPT !.op = "index_directory",
                                     !.raised = raised,
                                     !.embed_calls = IF chunks # <<>> THEN 1 ELSE 0,
                                     !.inserted = Len(ix1.index) - Len(indexer.index),
                                     !.persisted = completed]
            /\ UNCHANGED <<disk, store, committed, pc, work, crashes>>

AddDocument ==
    \E p \in Paths :
        /\ pc = "idle"
        /\ IF disk[p] = NoFile
           THEN /\ last' = [NoObs EXCEPT !.op = "add_document", !.raised = TRUE]
                /\ UNCHANGED <<indexer, artifacts>>
           ELSE LET chunks == process_file(disk, p)
                    embeddings == generate_embeddings(Contents(chunks), indexer.embedding_dim)
                    ix1 == add_documents(indexer, chunks, embeddings)
                    raised == add_documents_raises(indexer, chunks, embeddings)
                    completed == chunks # <<>> /\ ~raised
                IN /\ Len(indexer.chunks) + Len(chunks) <= MaxVectors
                   /\ indexer' = ix1
                   /\ artifacts' = IF completed THEN save_index(artifacts, ix1) ELSE artifacts
                   /\ last' = [NoObs EXCEPT !.op = "add_document",
                                            !.raised = raised,
                                            !.embed_calls = IF chunks # <<>> THEN 1 ELSE 0,
                                            !.inserted = Len(ix1.index) - Len(indexer.index),
                                            !.persisted = completed]
        /\ UNCHANGED <<disk, store, committed, pc, work, crashes>>

\* DocumentSearchEngine.remove_document: the indexer's remove_document, then save_index
RemoveDocument ==
    \E document_id \in DistinctDocuments(indexer) :
        LET raised == remove_document_raises(indexer, document_id)
            ix1 == remove_document(indexer, document_id)
        IN /\ pc = "idle"
           /\ indexer' = ix1
           /\ artifacts' = IF raised THEN artifacts ELSE save_index(artifacts, ix1)
           /\ last' = [NoObs EXCEPT !.op = "remove_document",
                                    !.raised = raised,
                                    !.arg = document_id,
                                    !.removed = Len(indexer.chunks) - Len(ix1.chunks),
                                    !.persisted = ~raised]
           /\ UNCHANGED <<disk, store, committed, pc, work, crashes>>

\* DocumentSearchEngine.clear_index: the indexer's clear_index, then clear_all
ClearIndex ==
    /\ pc = "idle"
    /\ indexer' = clear_index(indexer)
    /\ artifacts' = NoArtifacts
    /\ store' = clear_all(store)
    /\ committed' = clear_all(store)
    /\ last' = [NoObs EXCEPT !.op = "clear_index",
                             !.before_total = Len(indexer.index),
                             !.removed = Cardinality(store.files)]
    /\ UNCHANGED <<disk, pc, work, crashes>>

QueryContent == ChunkContent([mtime |-> 1, size |-> 1], 0)

Queries == {[blank |-> TRUE, content |-> 0], [blank |-> FALSE, content |-> QueryContent]}

\* the calls DocumentSearchEngine.search makes for a query: one
\* generate_query_embedding and one indexer.search, none for a blank query
engine_search_calls(query) == IF query.blank THEN 0 ELSE 1

engine_search_no_strip(ix, query, k) ==
    indexer_search(ix, Embedding(query.content, ix.embedding_dim), k)

\* DocumentSearchEngine.search
engine_search(ix, query, k) ==
    IF query.blank THEN <<>>
    ELSE indexer_search(ix, Embedding(query.content, ix.embedding_dim), k)

\* the engine driven through incremental indexing, removal, clearing and search
Next ==
    \/ WriteFile
    \/ DeleteFile
    \/ IndexDirectoryIncremental
    \/ RemoveDocument
    \/ ClearIndex

Spec == InitCommon /\ [][Next]_vars

\* the engine driven through its three indexing operations
NextIndexing ==
    \/ WriteFile
    \/ DeleteFile
    \/ IndexDirectory
    \/ IndexDirectoryIncremental
    \/ AddDocument
    \/ ClearIndex

SpecIndexing == InitCommon /\ [][NextIndexing]_vars

\* only file system changes and incremental runs of the one directory
NextIncremental ==
    \/ WriteFile
    \/ DeleteFile
    \/ IndexDirectoryIncremental

SpecIncremental == InitCommon /\ [][NextIncremental]_vars

----------------------------------------------------------------------------
(* SpecCrash: index_directory_incremental one durable step at a time, with  *)
(* the process stopping at any point and the engine being constructed       *)
(* again on the same index directory.                                       *)

Step(op) == [NoObs EXCEPT !.op = op]

\* change detection and the pipeline: nothing durable happens yet
CrBegin ==
    /\ pc = "idle"
    /\ LET change_set == get_changed_files(store, disk, Dir, supported_extensions, text_filenames)
       IN \E order \in Perms(files_to_process(change_set)) :
            LET chunks == all_chunks(disk, order)
            IN /\ Len(indexer.chunks) + Len(chunks) <= MaxVectors
               /\ work' = [chunks |-> chunks,
                           deleted |-> change_set.deleted_files,
                           no_changes |-> chunks = <<>> /\ change_set.deleted_files = {},
                           order |-> FirstSeen(chunks, 1, {}),
                           start_idx |-> 0,
                           k |-> 1,
                           total_files |-> Cardinality(change_set.new_files
                                                       \cup change_set.modified_files
                                                       \cup change_set.unchanged_files)]
    /\ pc' = "deleting"
    /\ last' = Step("checking_changes")
    /\ UNCHANGED <<disk, indexer, store, committed, artifacts, crashes>>

\* one remove_file of the loop over change_info['deleted'], with its commit
CrRemoveFile ==
    /\ pc = "deleting"
    /\ \E file_path \in work.deleted :
         /\ store' = remove_file(store, file_path).store
         /\ committed' = remove_file(store, file_path).store
         /\ work' = [work EXCEPT !.deleted = work.deleted \ {file_path}]
    /\ last' = Step("removed_file")
    /\ UNCHANGED <<disk, indexer, artifacts, pc, crashes>>

\* the no-change return, or generate_embeddings and add_documents (in memory)
CrAddDocuments ==
    /\ pc = "deleting"
    /\ work.deleted = {}
    /\ IF work.no_changes
       THEN /\ pc' = "idle"
            /\ UNCHANGED <<indexer, work>>
       ELSE IF work.chunks = <<>>
       THEN /\ pc' = "saving"
            /\ UNCHANGED <<indexer, work>>
       ELSE /\ indexer' = add_documents(indexer, work.chunks,
                                        generate_embeddings(Contents(work.chunks),
                                                            indexer.embedding_dim))
            /\ work' = [work EXCEPT !.start_idx = get_index_size(indexer)]
            /\ pc' = "recording"
    /\ last' = Step("chunks_added")
    /\ UNCHANGED <<disk, store, committed, artifacts, crashes>>

\* one update_file of the loop over file_chunks, with its commit
CrUpdateFile ==
    /\ pc = "recording"
    /\ LET info == file_chunks(work.chunks, work.start_idx, Head(work.order))
           u == update_file(store, disk, Head(work.order), info.document_id,
                            info.chunk_ids, info.vector_indices)
       IN /\ store' = u.store
          /\ committed' = IF u.raised THEN committed ELSE u.store
          /\ work' = [work EXCEPT !.order = Tail(work.order)]
          /\ pc' = IF u.raised THEN "idle"
                   ELSE IF Tail(work.order) = <<>> THEN "saving" ELSE "recording"
          /\ last' = [Step("update_file") EXCEPT !.raised = u.raised]
    /\ UNCHANGED <<disk, indexer, artifacts, crashes>>

\* one of the four artifact writes of save_index
CrWriteArtifact ==
    /\ pc = "saving"
    /\ artifacts' = WriteArtifact(artifacts, indexer, work.k)
    /\ work' = [work EXCEPT !.k = work.k + 1]
    /\ pc' = IF work.k = 4 THEN "stats" ELSE "saving"
    /\ last' = Step("saving_index")
    /\ UNCHANGED <<disk, indexer, store, committed, crashes>>

CrUpdateFolderStats ==
    /\ pc = "stats"
    /\ store' = update_folder_stats(store, Dir, work.total_files)
    /\ committed' = update_folder_stats(store, Dir, work.total_files)
    /\ pc' = "idle"
    /\ last' = Step("incremental_complete")
    /\ UNCHANGED <<disk, indexer, artifacts, work, crashes>>

\* the process stops: memory and the open transaction are lost
Crash ==
    /\ pc \notin {"down", "failed"}
    /\ crashes < MaxCrashes
    /\ crashes' = crashes + 1
    /\ pc' = "down"
    /\ indexer' = NewIndexer(EmbeddingDim)
    /\ store' = committed
    /\ work' = NoWork
    /\ last' = Step("crash")
    /\ UNCHANGED <<disk, committed, artifacts>>

\* DocumentSearchEngine.__init__ on the same index directory
Restart ==
    /\ pc = "down"
    /\ LET raised == artifacts.index_path # NoFile /\ load_index_raises(artifacts)
       IN /\ indexer' = IF raised THEN indexer
                        ELSE _load_or_create_index(artifacts, EmbeddingDim)
          /\ pc' = IF raised THEN "failed" ELSE "idle"
          /\ last' = [Step("restart") EXCEPT !.raised = raised]
    /\ store' = committed
    /\ UNCHANGED <<disk, committed, artifacts, work, crashes>>

NextCrash ==
    \/ WriteFile
    \/ DeleteFile
    \/ CrBegin
    \/ CrRemoveFile
    \/ CrAddDocuments
    \/ CrUpdateFile
    \/ CrWriteArtifact
    \/ CrUpdateFolderStats
    \/ Crash
    \/ Restart

SpecCrash == InitCommon /\ [][NextCrash]_vars

\* C8: after a stop inside a mutating operation, the next start either fails
\* to load or loads a consistent state: as many vectors as chunks, and every
\* ChunkRecord pointing at a loaded vector of its own chunk.
C8_RestartConsistent ==
    (/\ last.op = "restart"
     /\ ~last.raised)
    => (/\ Len(indexer.index) = Len(indexer.chunks)
        /\ \A r \in store.chunks :
              /\ r.vector_index < Len(indexer.index)
              /\ r.vector_index < Len(indexer.chunks)
              /\ indexer.chunks[r.vector_index + 1].chunk_id = r.chunk_id)

\* C9: load_index on artifacts whose vector count differs from the chunk
\* payload count fails with an error.
C9_LoadRejectsMismatch ==
    (/\ last.op = "restart"
     /\ artifacts.index_path # NoFile
     /\ artifacts.chunks_path # NoFile
     /\ Len(artifacts.index_path[1]) # Len(artifacts.chunks_path[1]))
    => last.raised

----------------------------------------------------------------------------
(* Claims about the orchestrator *)

\* C1: every ChunkRecord's vector_index is a position of the Vector Index, and
\* the chunk stored at that position has the ChunkRecord's chunk_id.
C1_VectorIndexLive ==
    \A r \in store.chunks :
        /\ r.vector_index < Len(indexer.index)
        /\ r.vector_index < Len(indexer.chunks)
        /\ indexer.chunks[r.vector_index + 1].chunk_id = r.chunk_id

\* a path that is neither on disk nor in the catalog: its deletion has been
\* processed by an incremental run (under Spec every chunk was indexed by one)
Forgotten(p) == disk[p] = NoFile /\ RowsOf(store, p) = {}

\* C2: an incremental run after an indexed file was deleted from disk reports
\* one deleted file and lowers total_chunks by the number of chunks of that
\* file, and no search afterwards returns a chunk of the deleted file.
C2_DeletedFileLeavesIndex ==
    /\ (/\ last.op = "index_directory_incremental"
        /\ Cardinality(last.vanished) = 1)
       => (/\ Cardinality(last.deleted) = 1
           /\ indexer.metadata.total_chunks
                = last.before_total - last.vanished_chunks + last.inserted)
    /\ \A query \in Queries, k \in 1..MaxVectors :
          \A hit \in Range(engine_search(indexer, query, k)) :
              ~Forgotten(hit.chunk.metadata.file_path)

\* C4: after a successful indexing operation every chunk in the Vector Index
\* belongs to a file that has a FileRecord carrying the chunk's document_id.
C4_IndexedFilesHaveRecords ==
    (/\ last.op \in {"index_directory", "index_directory_incremental", "add_document"}
     /\ ~last.raised)
    => \A i \in 1..Len(indexer.chunks) :
          \E f \in store.files :
              /\ f.file_path = indexer.chunks[i].metadata.file_path
              /\ f.document_id = indexer.chunks[i].document_id

\* C5: an incremental run that directly follows an incremental run of the same
\* directory, with no file system change in between, makes no embedding call,
\* inserts and removes no vector and does not persist.
C5_SecondRunIsNoOp ==
    (/\ last.op = "index_directory_incremental"
     /\ last.repeat)
    => (/\ last.embed_calls = 0
        /\ last.inserted = 0
        /\ last.removed = 0
        /\ ~last.persisted)

C5_Witness ==
    /\ last.op = "index_directory_incremental"
    /\ last.repeat
    /\ Len(indexer.chunks) > 0
    /\ \E p \in Paths : disk[p] # NoFile /\ disk[p][1].size = 0
    /\ \E p \in Paths : disk[p] # NoFile /\ RowsOf(store, p) # {}

----------------------------------------------------------------------------
(* SpecIdx: a FAISSIndexer driven directly through its methods *)

IdxStat == [mtime |-> 1, size |-> IdxSize]

IdxDocs == {_generate_document_id(p, IdxStat) : p \in Paths}

IdxChunks == UNION {Range(_create_chunks(p, IdxStat)) : p \in Paths}

CountOf(chunks, document_id) ==
    Cardinality({i \in 1..Len(chunks) : chunks[i].document_id = document_id})

IdxAddDocuments ==
    \E chunks \in SeqsUpTo(IdxChunks, MaxBatch), n \in 0..MaxBatch, dim \in 1..(EmbeddingDim + 1) :
        LET embeddings == [i \in 1..n |->
                              Embedding(IF i <= Len(chunks) THEN chunks[i].content ELSE 0, dim)]
        IN /\ Len(indexer.chunks) + Len(chunks) <= IdxMaxVectors
           /\ (n = 0) => (dim = 1)
           /\ indexer' = add_documents(indexer, chunks, embeddings)
           /\ last' = [NoObs EXCEPT !.op = "add_documents",
                                    !.raised = add_documents_raises(indexer, chunks, embeddings),
                                    !.n_chunks = Len(chunks),
                                    !.n_embeddings = n,
                                    !.dim = IF n = 0 THEN 0 ELSE dim]
           /\ UNCHANGED <<disk, store, committed, artifacts, pc, work, crashes>>

IdxRemoveDocument ==
    \E document_id \in IdxDocs :
        /\ indexer' = remove_document(indexer, document_id)
        /\ last' = [NoObs EXCEPT !.op = "remove_document",
                                 !.raised = remove_document_raises(indexer, document_id),
                                 !.arg = document_id,
                                 !.removed = Len(indexer.chunks)
                                             - Len(remove_document(indexer, document_id).chunks)]
        /\ UNCHANGED <<disk, store, committed, artifacts, pc, work, crashes>>

IdxClearIndex ==
    /\ indexer' = clear_index(indexer)
    /\ artifacts' = NoArtifacts
    /\ last' = [NoObs EXCEPT !.op = "clear_index"]
    /\ UNCHANGED <<disk, store, committed, pc, work, crashes>>

IdxSearch ==
    \E query \in Queries, k \in {1, IdxMaxVectors} :
        /\ last' = [NoObs EXCEPT !.op = "search",
                                 !.results = engine_search(indexer, query, k)]
        /\ UNCHANGED <<disk, indexer, store, committed, artifacts, pc, work, crashes>>

NextIdx == IdxAddDocuments \/ IdxRemoveDocument \/ IdxClearIndex \/ IdxSearch

SpecIdx == InitCommon /\ [][NextIdx]_vars

\* every stored chunk is paired with the vector of its own content
Aligned(ix) ==
    \A i \in 1..Len(ix.chunks) :
        /\ i <= Len(ix.index)
        /\ ix.index[i] = Embedding(ix.chunks[i].content, ix.embedding_dim)

KeepOthers(chunks, document_id) ==
    LET Other(c) == c.document_id # document_id IN SelectSeq(chunks, Other)

\* C3: after remove_document(d) on a document that has chunks, no stored chunk
\* belongs to d, total_chunks has dropped by the number of d's chunks, and the
\* survivors keep their order, each at the position of its own vector.
C3_RemoveDocumentRebuilds ==
    [][(/\ last'.op = "remove_document"
        /\ CountOf(indexer.chunks, last'.arg) > 0)
       => (/\ CountOf(indexer'.chunks, last'.arg) = 0
           /\ indexer'.metadata.total_chunks
                = indexer.metadata.total_chunks - CountOf(indexer.chunks, last'.arg)
           /\ indexer'.chunks = KeepOthers(indexer.chunks, last'.arg)
           /\ Aligned(indexer'))]_vars

\* C6: the number of vectors, the length of the chunk list and total_chunks agree.
C6_CountsAgree ==
    /\ Len(indexer.index) = Len(indexer.chunks)
    /\ Len(indexer.chunks) = indexer.metadata.total_chunks

C6_Witness ==
    /\ last.op = "remove_document"
    /\ last.removed > 0
    /\ Len(indexer.chunks) > 0

\* C7: total_documents, in the index metadata and in get_statistics, is the
\* number of distinct document ids among the stored chunks.
C7_TotalDocuments ==
    /\ indexer.metadata.total_documents = Cardinality(DistinctDocuments(indexer))
    /\ get_statistics(indexer).total_documents = Cardinality(DistinctDocuments(indexer))

\* C10: add_documents with a wrong embedding dimension or with a chunk count
\* different from the embedding count raises and leaves the index as it was.
C10_MismatchRaisesUnchanged ==
    [][(/\ last'.op = "add_documents"
        /\ \/ last'.n_chunks # last'.n_embeddings
           \/ /\ last'.n_embeddings > 0
              /\ last'.dim # indexer.embedding_dim)
       => (/\ last'.raised
           /\ indexer' = indexer)]_vars

C10_Witness ==
    /\ last.op = "add_documents"
    /\ last.raised
    /\ last.n_chunks = last.n_embeddings
    /\ last.dim # indexer.embedding_dim
    /\ Len(indexer.chunks) > 0

----------------------------------------------------------------------------
(* SpecPersist: a FAISSIndexer that is filled, saved and constructed again *)
(* on the same index directory.                                            *)

PersistAddDocuments ==
    \E chunks \in SeqsUpTo(IdxChunks, MaxBatch) :
        /\ Len(indexer.chunks) + Len(chunks) <= PersistMaxVectors
        /\ indexer' = add_documents(indexer, chunks,
                                    generate_embeddings(Contents(chunks), indexer.embedding_dim))
        /\ last' = [NoObs EXCEPT !.op = "add_documents", !.n_chunks = Len(chunks)]
        /\ UNCHANGED <<disk, store, committed, artifacts, pc, work, crashes>>

PersistSaveIndex ==
    /\ artifacts' = save_index(artifacts, indexer)
    /\ last' = [NoObs EXCEPT !.op = "save_index", !.persisted = TRUE]
    /\ UNCHANGED <<disk, indexer, store, committed, pc, work, crashes>>

\* FAISSIndexer.__init__ of a fresh instance on the same directory
PersistFresh ==
    /\ LET raised == artifacts.index_path # NoFile /\ load_index_raises(artifacts)
       IN /\ indexer' = IF raised THEN NewIndexer(EmbeddingDim)
                        ELSE _load_or_create_index(artifacts, EmbeddingDim)
          /\ last' = [NoObs EXCEPT !.op = "fresh_instance",
                                   !.raised = raised,
                                   !.after_save = (last.op = "save_index")]
    /\ UNCHANGED <<disk, store, committed, artifacts, pc, work, crashes>>

NextPersist ==
    \/ PersistAddDocuments
    \/ PersistSaveIndex
    \/ PersistFresh
    \/ IdxClearIndex

SpecPersist == InitCommon /\ [][NextPersist]_vars

\* C11: a fresh FAISSIndexer constructed right after save_index holds the
\* same total_chunks, the same chunks in the same order, the same set of
\* document ids and the same vector at every position as the saved one.
C11_RoundTrip ==
    [][(/\ last.op = "save_index"
        /\ last'.op = "fresh_instance")
       => (/\ ~last'.raised
           /\ indexer'.metadata.total_chunks = indexer.metadata.total_chunks
           /\ indexer'.chunks = indexer.chunks
           /\ indexer'.document_ids = indexer.document_ids
           /\ indexer'.index = indexer.index)]_vars

C11_Witness ==
    /\ last.op = "fresh_instance"
    /\ last.after_save
    /\ Len(indexer.chunks) = PersistMaxVectors
    /\ Cardinality(indexer.document_ids) > 1

----------------------------------------------------------------------------
(* SpecStore: a MetadataStore called directly, on every small catalog and   *)
(* every small directory snapshot.                                         *)

StorePaths == {<<"d", "/", "a", ".txt">>, <<"d", "/", "b", ".bin">>}

\* the directory as the caller may spell it
StoreDirs == {<<"d">>, <<".", "/", "d">>, <<"d", "/">>}

\* every modification time at one size, and one stat of another size
StoreStats ==
    {[mtime |-> m, size |-> 1] : m \in 1..StoreMaxMtime} \cup {[mtime |-> 1, size |-> 2]}

StoreHashes == {None, File("h1"), File("h2")}

\* the rows a file can have: written by add_file (any hash) or update_file
StoreRows(p) ==
    {FileRow(p, stat, _generate_document_id(p, stat), h) :
        stat \in StoreStats, h \in {None, File("h1")}}

StoreChunkRows(files) ==
    {[chunk_id |-> ChunkId(f.document_id, 0), document_id |-> f.document_id,
      vector_index |-> 0] : f \in files}

\* catalogs with at most one row per path (file_path is the PRIMARY KEY)
StoreCatalogs ==
    {[files |-> files, chunks |-> StoreChunkRows(files), folders |-> {}] :
        files \in {fs \in SUBSET (UNION {StoreRows(p) : p \in StorePaths}) :
                      \A p \in StorePaths : Cardinality(RowsOf([files |-> fs], p)) <= 1}}

InitStore ==
    /\ disk \in [StorePaths -> {NoFile} \cup {File(stat) : stat \in StoreStats}]
    /\ store \in StoreCatalogs
    /\ committed = store
    /\ indexer = NewIndexer(EmbeddingDim)
    /\ artifacts = NoArtifacts
    /\ pc = "idle"
    /\ work = NoWork
    /\ last = NoObs
    /\ crashes = 0

StGetFileStatus ==
    \E file_path \in StorePaths, content_hash \in StoreHashes,
       obs \in {None} \cup {File(stat) : stat \in StoreStats} :
        LET file_size == IF obs = None THEN None ELSE File(obs[1].size)
            modified_time == IF obs = None THEN None ELSE File(obs[1].mtime)
        IN /\ last' = [NoObs EXCEPT
                         !.op = "get_file_status",
                         !.arg = [file_path |-> file_path, content_hash |-> content_hash,
                                  file_size |-> file_size, modified_time |-> modified_time],
                         !.results = get_file_status(store, disk, file_path, content_hash,
                                                     file_size, modified_time)]
           /\ UNCHANGED <<disk, indexer, store, committed, artifacts, pc, work, crashes>>

StGetChangedFiles ==
    \E directory \in StoreDirs, extensions \in {supported_extensions, {}},
       names \in {text_filenames, {}} :
        /\ last' = [NoObs EXCEPT
                      !.op = "get_changed_files",
                      !.arg = [directory |-> directory, extensions |-> extensions,
                               names |-> names],
                      !.results = get_changed_files(store, disk, directory, extensions, names)]
        /\ UNCHANGED <<disk, indexer, store, committed, artifacts, pc, work, crashes>>

StRemoveFile ==
    \E file_path \in StorePaths :
        /\ store' = remove_file(store, file_path).store
        /\ committed' = remove_file(store, file_path).store
        /\ last' = [NoObs EXCEPT !.op = "remove_file",
                                 !.arg = [file_path |-> file_path],
                                 !.results = remove_file(store, file_path).document_id]
        /\ UNCHANGED <<disk, indexer, artifacts, pc, work, crashes>>

NextStore ==
    \/ StGetFileStatus
    \/ StGetChangedFiles
    \/ StRemoveFile

SpecStore == InitStore /\ [][NextStore]_vars

\* C12: get_changed_files places every file that is present under the
\* directory and passes the filters in exactly one of new_files,
\* modified_files and unchanged_files, and places nothing else there.
C12_ExactlyOneList ==
    last.op = "get_changed_files" =>
        LET cs == last.results
            present == current_files(disk, last.arg.directory, last.arg.extensions,
                                     last.arg.names)
        IN /\ cs.new_files \cup cs.modified_files \cup cs.unchanged_files = present
           /\ cs.new_files \cap cs.modified_files = {}
           /\ cs.new_files \cap cs.unchanged_files = {}
           /\ cs.modified_files \cap cs.unchanged_files = {}

C12_Witness ==
    /\ last.op = "get_changed_files"
    /\ last.results.new_files # {}
    /\ last.results.modified_files # {}
    /\ Cardinality(current_files(disk, last.arg.directory, last.arg.extensions,
                                 last.arg.names)) = 2

\* C13: for any directory argument and any catalog, every FileRecord whose
\* path lies under the directory and is not in the current enumeration is in
\* deleted_files.
C13_DeletedReported ==
    last.op = "get_changed_files" =>
        \A r \in store.files :
            (/\ IsUnder(PathOf(last.arg.directory), r.file_path)
             /\ r.file_path \notin current_files(disk, last.arg.directory,
                                                 last.arg.extensions, last.arg.names))
            => r.file_path \in last.results.deleted_files

\* The FileRecord of the path a get_file_status call was about.
StatusRow == CHOOSE r \in RowsOf(store, last.arg.file_path) : TRUE

StatusGiven == last.arg.file_size # None /\ last.arg.modified_time # None

\* C14 as stated: 'new' without a FileRecord; 'deleted' when a FileRecord
\* exists and the file is no longer on disk; otherwise 'modified' when the
\* stored and the observed content hash are both present and differ, otherwise
\* 'modified' when the observed modified_time or file_size differs from the
\* FileRecord, otherwise 'unchanged'.
C14_StatusAsStated ==
    last.op = "get_file_status" =>
        LET a == last.arg
            observed == IF StatusGiven
                        THEN [mtime |-> a.modified_time[1], size |-> a.file_size[1]]
                        ELSE disk[a.file_path][1]
        IN last.results =
             IF RowsOf(store, a.file_path) = {} THEN "new"
             ELSE IF disk[a.file_path] = NoFile THEN "deleted"
             ELSE IF /\ a.content_hash # None
                     /\ StatusRow.content_hash # None
                     /\ a.content_hash # StatusRow.content_hash
                  THEN "modified"
             ELSE IF \/ observed.mtime # StatusRow.modified_time
                     \/ observed.size # StatusRow.file_size
                  THEN "modified"
             ELSE "unchanged"

\* C14 (amended): 'new' without a FileRecord.  With file_size and
\* modified_time both supplied the disk is not looked at: 'modified' when the
\* stored and the supplied content hash are both present and differ, otherwise
\* 'modified' when the supplied modified_time or file_size differs from the
\* FileRecord, otherwise 'unchanged'.  Without them the file is statted and no
\* hash is compared: 'deleted' when the file is no longer on disk, otherwise
\* 'modified' when its modified_time or file_size differs, otherwise 'unchanged'.
C14_Status ==
    last.op = "get_file_status" =>
        LET a == last.arg
        IN IF RowsOf(store, a.file_path) = {} THEN last.results = "new"
           ELSE IF StatusGiven
           THEN last.results =
                  IF \/ /\ a.content_hash # None
                        /\ StatusRow.content_hash # None
                        /\ a.content_hash # StatusRow.content_hash
                     \/ a.modified_time[1] # StatusRow.modified_time
                     \/ a.file_size[1] # StatusRow.file_size
                  THEN "modified" ELSE "unchanged"
           ELSE IF disk[a.file_path] = NoFile THEN last.results = "deleted"
           ELSE last.results =
                  IF \/ disk[a.file_path][1].mtime # StatusRow.modified_time
                     \/ disk[a.file_path][1].size # StatusRow.file_size
                  THEN "modified" ELSE "unchanged"

\* a FileRecord whose file is gone, asked about with the stored size and time
C14_Witness ==
    /\ last.op = "get_file_status"
    /\ RowsOf(store, last.arg.file_path) # {}
    /\ disk[last.arg.file_path] = NoFile
    /\ StatusGiven
    /\ last.arg.modified_time[1] = StatusRow.modified_time
    /\ last.arg.file_size[1] # StatusRow.file_size
    /\ last.results = "modified"

\* C16: remove_file on a known path deletes the path's FileRecord and every
\* ChunkRecord of its document and returns that document_id; on an unknown
\* path it returns None and the catalog is unchanged.
C16_RemoveFile ==
    [][last'.op = "remove_file" =>
         LET known == RowsOf(store, last'.arg.file_path)
         IN IF known = {}
            THEN /\ last'.results = None
                 /\ store' = store
                 /\ committed' = committed
            ELSE /\ \A r \in known : last'.results = r.document_id
                 /\ RowsOf(store', last'.arg.file_path) = {}
                 /\ \A c \in store'.chunks : c.document_id # last'.results
                 /\ RowsOf(committed', last'.arg.file_path) = {}
                 /\ \A c \in committed'.chunks : c.document_id # last'.results]_vars

\* a known path was removed while another FileRecord stayed
C16_Witness ==
    /\ last.op = "remove_file"
    /\ last.results # None
    /\ store.files # {}
    /\ store.chunks # {}

----------------------------------------------------------------------------
(* SpecTxn: update_file on one connection (store is that connection's view) *)
(* while other connections read the committed database.                     *)

TxChunkIds == {"chunk1", "chunk2"}

\* the chunk ids of one document are distinct (document_processor.py:387)
TxChunkLists ==
    {ids \in SeqsUpTo(TxChunkIds, TxMaxChunks) :
        \A i, j \in 1..Len(ids) : ids[i] = ids[j] => i = j}

\* update_file up to its last INSERT: every statement runs in the transaction
\* that the first DELETE opened; os.stat raises before any of them
TxExecute ==
    /\ pc = "idle"
    /\ \E file_path \in StorePaths, chunk_ids \in TxChunkLists :
        LET stat == IF disk[file_path] = NoFile THEN [mtime |-> 0, size |-> 0]
                    ELSE disk[file_path][1]
            document_id == _generate_document_id(file_path, stat)
            vector_indices == [k \in 1..Len(chunk_ids) |-> k - 1]
            u == update_file(store, disk, file_path, document_id, chunk_ids, vector_indices)
        IN /\ store' = u.store
           /\ pc' = IF u.raised THEN "idle" ELSE "commit"
           /\ work' = IF u.raised THEN NoWork
                      ELSE [file_path |-> file_path, document_id |-> document_id,
                            chunk_ids |-> chunk_ids, vector_indices |-> vector_indices]
           /\ last' = [NoObs EXCEPT !.op = "update_file", !.raised = u.raised,
                                    !.arg = [file_path |-> file_path]]
    /\ UNCHANGED <<disk, indexer, committed, artifacts, crashes>>

\* self.connection.commit() at the end of update_file
TxCommit ==
    /\ pc = "commit"
    /\ committed' = store
    /\ pc' = "idle"
    /\ work' = NoWork
    /\ last' = [NoObs EXCEPT !.op = "commit", !.arg = [file_path |-> work.file_path]]
    /\ UNCHANGED <<disk, indexer, store, artifacts, crashes>>

InitTxn ==
    /\ disk \in [StorePaths -> {NoFile} \cup {File(stat) : stat \in StoreStats}]
    /\ store = EmptyStore
    /\ committed = EmptyStore
    /\ indexer = NewIndexer(EmbeddingDim)
    /\ artifacts = NoArtifacts
    /\ pc = "idle"
    /\ work = NoWork
    /\ last = NoObs
    /\ crashes = 0

NextTxn ==
    \/ TxExecute
    \/ TxCommit

SpecTxn == InitTxn /\ [][NextTxn]_vars

\* what a reader sees of one path: its FileRecord and its document's ChunkRecords
ViewOf(st, file_path) ==
    [files |-> RowsOf(st, file_path),
     chunks |-> {c \in st.chunks : \E r \in RowsOf(st, file_path) :
                                      c.document_id = r.document_id}]

\* the FileRecord and the ChunkRecords that the update_file call in progress gives
NewViewOf(w) ==
    [files |-> {FileRow(w.file_path, disk[w.file_path][1], w.document_id, None)},
     chunks |-> {[chunk_id |-> w.chunk_ids[k], document_id |-> w.document_id,
                  vector_index |-> w.vector_indices[k]] : k \in 1..Len(w.chunk_ids)}]

\* C15: update_file replaces a path's FileRecord and ChunkRecords in one atomic
\* step: whenever what a reader on another connection sees of a path changes,
\* it changes to the new FileRecord of an update_file call on that path with
\* exactly that call's chunk set.
C15_AtomicReplace ==
    [][\A file_path \in StorePaths :
          \/ ViewOf(committed', file_path) = ViewOf(committed, file_path)
          \/ /\ pc = "commit"
             /\ work.file_path = file_path
             /\ ViewOf(committed', file_path) = NewViewOf(work)]_vars

----------------------------------------------------------------------------
(* SpecClear: DocumentSearchEngine.clear_index from every small state of    *)
(* the Vector Index, its artifacts and the catalog.                         *)

\* the indexes one add_documents call builds
ClearIndexers ==
    {add_documents(NewIndexer(EmbeddingDim), chunks,
                   generate_embeddings(Contents(chunks), EmbeddingDim)) :
        chunks \in SeqsUpTo(IdxChunks, MaxBatch)}

InitClear ==
    /\ disk = [p \in Paths |-> NoFile]
    /\ indexer \in ClearIndexers
    /\ artifacts \in {NoArtifacts, save_index(NoArtifacts, indexer)}
    /\ store \in StoreCatalogs
    /\ committed = store
    /\ pc = "idle"
    /\ work = NoWork
    /\ last = NoObs
    /\ crashes = 0

NextClear ==
    \/ ClearIndex
    \/ PersistFresh

SpecClear == InitClear /\ [][NextClear]_vars

\* C18: after DocumentSearchEngine.clear_index, from any state, the Vector
\* Index has no vectors, chunks or documents, the Metadata Store has no
\* FileRecords and no ChunkRecords, and the artifacts are deleted, so a fresh
\* instance on the same directory starts empty.
C18_ClearIndexEmpties ==
    last.op = "clear_index" =>
        /\ indexer.index = <<>>
        /\ indexer.chunks = <<>>
        /\ indexer.document_ids = {}
        /\ indexer.metadata.total_chunks = 0
        /\ indexer.metadata.total_documents = 0
        /\ store.files = {} /\ store.chunks = {}
        /\ committed.files = {} /\ committed.chunks = {}
        /\ artifacts = NoArtifacts
        /\ _load_or_create_index(artifacts, EmbeddingDim) = NewIndexer(EmbeddingDim)

\* an index with vectors and a catalog with FileRecords were cleared
C18_Witness ==
    /\ last.op = "clear_index"
    /\ last.before_total > 0
    /\ last.removed > 0

----------------------------------------------------------------------------
(* SpecDispatch: the JSON loop of cli.py interactive.  work holds the lines *)
(* the host has written and the loop has not read yet (stdin), the requests *)
(* being handled (handlers) and where the loop is; a handler moves through  *)
(* the calls it makes on the engine.                                        *)

DispActions == {"search", "index", "stats", "clear"}

\* the lines a host may write: a JSON object with an action the loop knows,
\* with exit, with an action it has no branch for, text that is not JSON, and
\* JSON that is not an object
DispLines ==
    {[json |-> "object", action |-> a] : a \in DispActions \cup {"exit", "status"}}
    \cup {[json |-> "malformed", action |-> "none"],
          [json |-> "not_object", action |-> "none"]}

\* calls that change the Vector Index
MutatingCalls == {"add_documents", "remove_document", "clear_index", "save_index"}

NoRun == <<>>

Handler(request, phase, pending, error) ==
    [action |-> request.action, json |-> request.json, in_flight |-> request.in_flight,
     phase |-> phase, pending |-> pending, order |-> <<>>, run |-> NoRun,
     failed |-> error # None, error |-> error]

IndexInFlight == \E i \in 1..Len(work.handlers) : work.handlers[i].action = "index"

RemoveAt(seq, i) == SubSeq(seq, 1, i - 1) \o SubSeq(seq, i + 1, Len(seq))

\* the host writes a request line; in_flight notes whether an index request
\* was being handled at that moment
HostSend ==
    \E line \in DispLines :
        /\ work.host_alive
        /\ work.sent < DispMaxRequests
        /\ work' = [work EXCEPT !.stdin = Append(@, [json |-> line.json,
                                                      action |-> line.action,
                                                      in_flight |-> IndexInFlight]),
                                !.sent = @ + 1]
        /\ last' = [NoObs EXCEPT !.op = "send", !.arg = line.action]
        /\ UNCHANGED <<disk, indexer, store, committed, artifacts, pc, crashes>>

ErrorText_generic(request) ==
    IF request.json # "object" THEN <<"", "exception">>
    ELSE <<"Unknown action: ", request.action>>

\* the error of a line no branch handles: json.loads raised JSONDecodeError,
\* command.get raised on a value that is not an object, or the final else
ErrorText(request) ==
    IF request.json = "malformed" THEN <<"Invalid JSON: ", "JSONDecodeError">>
    ELSE IF request.json = "not_object" THEN <<"", "AttributeError">>
    ELSE <<"Unknown action: ", request.action>>

\* what handling a line starts with; index_directory_incremental begins
\* with get_changed_files and hands the files to the worker pool
FirstPhase(request, folder) ==
    IF request.json # "object" THEN Handler(request, "done", {}, ErrorText(request))
    ELSE IF request.action = "index"
    THEN IF folder = None
         THEN Handler(request, "done", {}, <<"No folder specified", "">>)
         ELSE Handler(request, "pipeline",
                      files_to_process(get_changed_files(store, disk, folder[1],
                                                         supported_extensions,
                                                         text_filenames)),
                      None)
    ELSE IF request.action = "search" THEN Handler(request, "search", {}, None)
    ELSE IF request.action = "stats" THEN Handler(request, "get_statistics", {}, None)
    ELSE IF request.action = "clear" THEN Handler(request, "clear_index", {}, None)
    ELSE IF request.action = "exit" THEN Handler(request, "done", {}, None)
    ELSE Handler(request, "done", {}, ErrorText(request))

\* the folder field of an index request
Folders(request) == IF request.action = "index" THEN {None, File(Dir)} ELSE {None}

DispRead_async ==
    /\ work.loop = "running"
    /\ work.stdin # <<>>
    /\ \E folder \in Folders(Head(work.stdin)) :
        work' = [work EXCEPT !.stdin = Tail(@),
                             !.read = @ + 1,
                             !.handlers = Append(@, FirstPhase(Head(work.stdin), folder))]
    /\ last' = [NoObs EXCEPT !.op = "read", !.arg = Head(work.stdin).action]
    /\ UNCHANGED <<disk, indexer, store, committed, artifacts, pc, crashes>>

\* sys.stdin.readline() at the top of the loop: reached only after the reply
\* to the previous line was printed, and not after break
DispRead ==
    /\ work.loop = "running"
    /\ work.handlers = <<>>
    /\ work.stdin # <<>>
    /\ \E folder \in Folders(Head(work.stdin)) :
        work' = [work EXCEPT !.stdin = Tail(@),
                             !.read = @ + 1,
                             !.handlers = Append(@, FirstPhase(Head(work.stdin), folder))]
    /\ last' = [NoObs EXCEPT !.op = "read", !.arg = Head(work.stdin).action]
    /\ UNCHANGED <<disk, indexer, store, committed, artifacts, pc, crashes>>

\* a worker thread of the pipeline finishes _process_file_with_progress
DispWorker ==
    \E i \in 1..Len(work.handlers) :
        /\ work.handlers[i].phase = "pipeline"
        /\ \E file_path \in work.handlers[i].pending :
            work' = [work EXCEPT !.handlers[i].pending = @ \ {file_path},
                                 !.handlers[i].order = Append(@, file_path)]
        /\ last' = [NoObs EXCEPT !.op = "worker"]
        /\ UNCHANGED <<disk, indexer, store, committed, artifacts, pc, crashes>>

\* all futures collected: the remove_file loop runs, then add_documents is
\* called when there are chunks
DispPipelineDone ==
    \E i \in 1..Len(work.handlers) :
        LET h == work.handlers[i]
            run == index_directory_incremental(indexer, store, committed, artifacts, disk,
                                               h.order)
        IN /\ h.phase = "pipeline"
           /\ h.pending = {}
           /\ Len(indexer.chunks) + Len(run.chunks) <= MaxVectors
           /\ store' = run.removed_store
           /\ committed' = run.removed_committed
           /\ work' = [work EXCEPT !.handlers[i].run = run,
                                   !.handlers[i].phase =
                                       IF run.chunks # <<>> THEN "add_documents"
                                       ELSE IF run.completed THEN "save_index" ELSE "done"]
           /\ last' = [NoObs EXCEPT !.op = "pipeline_done"]
           /\ UNCHANGED <<disk, indexer, artifacts, pc, crashes>>

\* add_documents returns (or raises) and the update_file loop runs
DispAddDocuments ==
    \E i \in 1..Len(work.handlers) :
        LET h == work.handlers[i]
        IN /\ h.phase = "add_documents"
           /\ indexer' = h.run.indexer
           /\ store' = h.run.recorded_store
           /\ committed' = h.run.recorded_committed
           /\ work' = [work EXCEPT !.handlers[i].failed = h.run.raised,
                                   !.handlers[i].error =
                                       IF h.run.raised THEN <<"", "exception">> ELSE None,
                                   !.handlers[i].phase =
                                       IF h.run.raised THEN "done" ELSE "save_index"]
           /\ last' = [NoObs EXCEPT !.op = "add_documents", !.raised = h.run.raised]
           /\ UNCHANGED <<disk, artifacts, pc, crashes>>

\* save_index returns and update_folder_stats runs
DispSaveIndex ==
    \E i \in 1..Len(work.handlers) :
        LET h == work.handlers[i]
        IN /\ h.phase = "save_index"
           /\ artifacts' = h.run.artifacts
           /\ store' = h.run.store
           /\ committed' = h.run.committed
           /\ work' = [work EXCEPT !.handlers[i].phase = "done"]
           /\ last' = [NoObs EXCEPT !.op = "save_index", !.persisted = TRUE]
           /\ UNCHANGED <<disk, indexer, pc, crashes>>

\* search_engine.search(query, k=limit, display_results=False); raises stands
\* for a limit or an index the engine cannot use (the except branch); a blank
\* query returns before anything that can raise
DispSearch ==
    \E i \in 1..Len(work.handlers), query \in Queries, raises \in BOOLEAN :
        /\ query.blank => ~raises
        /\ work.handlers[i].phase = "search"
        /\ work' = [work EXCEPT !.handlers[i].phase = "done",
                                !.handlers[i].failed = raises,
                                !.handlers[i].error =
                                    IF raises THEN <<"", "exception">> ELSE None]
        /\ last' = [NoObs EXCEPT !.op = "search",
                                 !.arg = File(query),
                                 !.raised = raises,
                                 !.embed_calls = engine_search_calls(query),
                                 !.index_reads = IF raises THEN 0
                                                 ELSE engine_search_calls(query),
                                 !.results = IF raises THEN <<>>
                                             ELSE engine_search(indexer, query, MaxVectors)]
        /\ UNCHANGED <<disk, indexer, store, committed, artifacts, pc, crashes>>

\* search_engine.indexer.get_statistics()
DispStats ==
    \E i \in 1..Len(work.handlers) :
        /\ work.handlers[i].phase = "get_statistics"
        /\ work' = [work EXCEPT !.handlers[i].phase = "done"]
        /\ last' = [NoObs EXCEPT !.op = "stats", !.results = get_statistics(indexer)]
        /\ UNCHANGED <<disk, indexer, store, committed, artifacts, pc, crashes>>

\* the clear branch: search_engine.indexer.clear_index()
DispClear ==
    \E i \in 1..Len(work.handlers) :
        /\ work.handlers[i].phase = "clear_index"
        /\ indexer' = clear_index(indexer)
        /\ artifacts' = NoArtifacts
        /\ work' = [work EXCEPT !.handlers[i].phase = "done"]
        /\ last' = [NoObs EXCEPT !.op = "clear_index", !.before_total = Len(indexer.index),
                                 !.removed = Cardinality(store.files)]
        /\ UNCHANGED <<disk, store, committed, pc, crashes>>

Response_no_error(h) ==
    [success |-> ~h.failed,
     action |-> IF h.json = "object" /\ h.action \in DispActions \cup {"exit"}
                THEN File(h.action) ELSE None,
     error |-> None]

\* the response object of a handled line; the replies of the final else and of
\* the two outer except clauses carry no action
Response(h) ==
    [success |-> ~h.failed,
     action |-> IF h.json = "object" /\ h.action \in DispActions \cup {"exit"}
                THEN File(h.action) ELSE None,
     error |-> h.error]

DispReply_no_break ==
    \E i \in 1..Len(work.handlers),
       broken \in IF work.host_alive THEN {FALSE} ELSE BOOLEAN :
        LET h == work.handlers[i]
        IN /\ h.phase = "done"
           /\ work' = IF broken
                      THEN [work EXCEPT !.handlers = <<>>, !.loop = "crashed"]
                      ELSE [work EXCEPT !.handlers = RemoveAt(@, i),
                                        !.replies = @ + 1]
           /\ last' = IF broken THEN [NoObs EXCEPT !.op = "broken_pipe"]
                      ELSE [NoObs EXCEPT !.op = "reply", !.arg = h.action,
                                         !.raised = h.failed, !.repeat = h.in_flight,
                                         !.results = Response(h)]
           /\ UNCHANGED <<disk, indexer, store, committed, artifacts, pc, crashes>>

\* print(json.dumps(response)) and flush: the reply to the line, followed by
\* break for exit.  With the host gone the pipe may be closed (broken): print
\* raises, the print of the except clause raises again and the loop is left.
DispReply ==
    \E i \in 1..Len(work.handlers),
       broken \in IF work.host_alive THEN {FALSE} ELSE BOOLEAN :
        LET h == work.handlers[i]
        IN /\ h.phase = "done"
           /\ work' = IF broken
                      THEN [work EXCEPT !.handlers = <<>>, !.loop = "crashed"]
                      ELSE [work EXCEPT !.handlers = RemoveAt(@, i),
                                        !.replies = @ + 1,
                                        !.loop = IF h.json = "object" /\ h.action = "exit"
                                                 THEN "exited" ELSE @]
           /\ last' = IF broken THEN [NoObs EXCEPT !.op = "broken_pipe"]
                      ELSE [NoObs EXCEPT !.op = "reply", !.arg = h.action,
                                         !.raised = h.failed, !.repeat = h.in_flight,
                                         !.results = Response(h)]
           /\ UNCHANGED <<disk, indexer, store, committed, artifacts, pc, crashes>>

InitDispatch ==
    /\ disk \in [Paths -> {NoFile, File(IdxStat)}]
    /\ indexer = NewIndexer(EmbeddingDim)
    /\ artifacts = NoArtifacts
    /\ store = EmptyStore
    /\ committed = EmptyStore
    /\ pc = "idle"
    /\ work = [stdin |-> <<>>, sent |-> 0, handlers |-> <<>>, loop |-> "running",
               host_alive |-> TRUE, read |-> 0, replies |-> 0]
    /\ last = NoObs
    /\ crashes = 0

NextDispatch ==
    \/ HostSend
    \/ DispRead
    \/ DispWorker
    \/ DispPipelineDone
    \/ DispAddDocuments
    \/ DispSaveIndex
    \/ DispSearch
    \/ DispStats
    \/ DispClear
    \/ DispReply

SpecDispatch == InitDispatch /\ [][NextDispatch]_vars

\* C17: after the dispatcher answers a clear request with success, the Vector
\* Index and the Metadata Store are both empty (so the next incremental index
\* request finds every file new).
C17_ClearEmptiesBoth ==
    (last.op = "reply" /\ last.arg = "clear" /\ ~last.raised) =>
        /\ indexer.index = <<>>
        /\ indexer.chunks = <<>>
        /\ store.files = {}
        /\ store.chunks = {}

PhasesInProgress == {work.handlers[i].phase : i \in 1..Len(work.handlers)}

CallsInProgress(calls) ==
    Cardinality({i \in 1..Len(work.handlers) : work.handlers[i].phase \in calls})

\* C19: in the dispatcher no two mutating Vector Index calls are in progress
\* together, no search reads the Vector Index while a mutating call is in
\* progress, and a step of a pipeline worker thread leaves the Vector Index
\* and the Metadata Store untouched.
C19_OneWriterNoReaders ==
    [][/\ CallsInProgress(MutatingCalls)' <= 1
       /\ (CallsInProgress(MutatingCalls)' = 1 => CallsInProgress({"search"})' = 0)
       /\ (last'.op = "worker" =>
              UNCHANGED <<indexer, store, committed, artifacts>>)]_vars

\* add_documents is in progress while the host has already written a search
\* request and a clear request
C19_Witness ==
    /\ "add_documents" \in PhasesInProgress
    /\ \E j \in 1..Len(work.stdin) : work.stdin[j].action = "search"
    /\ \E j \in 1..Len(work.stdin) : work.stdin[j].action = "clear"

\* C20: an index request that reaches the dispatcher while an earlier index
\* request is in flight is answered with a failure response.
C20_SecondIndexRejected ==
    (last.op = "reply" /\ last.arg = "index" /\ last.repeat) => last.raised

\* C21: every line the JSON loop reads (a valid request, malformed JSON, JSON
\* that is not an object, an unknown action, an operation that raises) gets
\* exactly one reply with a boolean success, a failing reply carries an error
\* string, no exception leaves the loop, and the loop keeps reading unless
\* the request was exit.
C21_OneReplyPerLine ==
    /\ work.loop # "crashed"
    /\ Len(work.handlers) <= 1
    /\ work.read = work.replies + Len(work.handlers)
    /\ last.op = "reply" =>
          /\ last.results.success \in BOOLEAN
          /\ ~last.results.success => last.results.error # None
          /\ last.results.success => last.results.error = None
          /\ work.loop = IF last.arg = "exit" THEN "exited" ELSE "running"

\* every line the host wrote was answered, the last one being JSON that is
\* not an object
C21_Witness ==
    /\ last.op = "reply"
    /\ last.results = [success |-> FALSE, action |-> None,
                       error |-> <<"", "AttributeError">>]
    /\ work.replies = DispMaxRequests

\* the handled line is not JSON, or is an object whose action has no branch
Unhandled(h) ==
    \/ h.json = "malformed"
    \/ h.json = "object" /\ h.action \notin DispActions \cup {"exit"}

\* C22: a line that is not valid JSON is answered with success=false and an
\* error starting with "Invalid JSON: ", a request with an unrecognised action
\* with success=false and the error "Unknown action: <name>"; handling either
\* leaves the Vector Index and the Metadata Store unchanged.
C22_InvalidAndUnknown ==
    [][\A i \in 1..Len(work.handlers) :
          LET h == work.handlers[i]
          IN Unhandled(h) =>
               /\ UNCHANGED <<indexer, store, committed, artifacts>>
               /\ last'.op = "reply" =>
                     /\ last'.results.success = FALSE
                     /\ IF h.json = "malformed"
                        THEN last'.results.error[1] = "Invalid JSON: "
                        ELSE last'.results.error = <<"Unknown action: ", h.action>>]_vars

\* a line that is not JSON was answered while the index held vectors
C22_Witness ==
    /\ last.op = "reply"
    /\ last.results.error # None
    /\ last.results.error[1] = "Invalid JSON: "
    /\ indexer.index # <<>>
    /\ store.files # {}

\* C23: an exit request is answered with exactly one reply, success=true and
\* action=exit, and the loop then ends: a line that follows it is never read
\* and nothing more is done.
C23_ExitTerminates ==
    [][/\ (last'.op = "reply" /\ last'.arg = "exit") =>
             /\ last'.results = [success |-> TRUE, action |-> File("exit"), error |-> None]
             /\ work'.replies = work.replies + 1
             /\ work'.loop = "exited"
       /\ work.loop = "exited" =>
             /\ work'.loop = "exited"
             /\ work'.read = work.read
             /\ work'.replies = work.replies
             /\ work'.handlers = <<>>
             /\ UNCHANGED <<indexer, store, committed, artifacts>>]_vars

\* the loop has ended and an index request written by the host stays unread
C23_Witness ==
    /\ work.loop = "exited"
    /\ last.op = "send"
    /\ \E j \in 1..Len(work.stdin) : work.stdin[j].action = "index"

\* C24: a status request is a recognised request: it is answered with
\* success=true (and the indexing-in-progress flag with the progress payload).
C24_StatusRecognised ==
    (last.op = "reply" /\ last.arg = "status") =>
        /\ last.results.success = TRUE
        /\ last.results.action = File("status")

\* The host process dies: its ends of the dispatcher's stdin and stdout are
\* closed.  Lines it wrote before stay readable in the pipe.
HostDies ==
    /\ work.loop = "running"
    /\ work.host_alive
    /\ work' = [work EXCEPT !.host_alive = FALSE]
    /\ last' = [NoObs EXCEPT !.op = "host_dies"]
    /\ UNCHANGED <<disk, indexer, store, committed, artifacts, pc, crashes>>

\* line = sys.stdin.readline(); if not line: break.  End of file is the only
\* way the waiting loop learns that the host is gone; it leaves the loop and
\* writes nothing (results stays empty).
DispEof ==
    /\ work.loop = "running"
    /\ work.handlers = <<>>
    /\ work.stdin = <<>>
    /\ ~work.host_alive
    /\ work' = [work EXCEPT !.loop = "eof"]
    /\ last' = [NoObs EXCEPT !.op = "eof"]
    /\ UNCHANGED <<disk, indexer, store, committed, artifacts, pc, crashes>>

NextHost ==
    \/ NextDispatch
    \/ HostDies
    \/ DispEof

SpecHost == InitDispatch /\ [][NextHost]_vars

\* C25: when the host process dies while the dispatcher runs, waiting or
\* processing, the dispatcher detects it, emits a terminal status event and
\* exits: a loop that ended because the host is gone has written that event.
C25_HostDeathReported ==
    (~work.host_alive /\ work.loop \in {"eof", "crashed"}) => last.results # <<>>

(***************************************************************************)
(* Document pipeline: the worker pool of process_directory and             *)
(* process_directory_incremental in JSON mode, one step per thread step    *)
(***************************************************************************)
PipeMaxFiles == 3
NumWorkers == 2
PipeMaxChunks == 2

\* the chunk list process_file returns for file f: n chunks, chunk_index 0..n-1
FileChunks(f, n) == [i \in 1..n |-> [file |-> f, chunk_index |-> i - 1]]

\* outcome of process_file: it raises, or returns a list of n chunks (no
\* text: none; otherwise PipeMaxChunks of them)
Outcomes == {[raised |-> TRUE, n |-> 0]}
            \cup {[raised |-> FALSE, n |-> n] : n \in {0, PipeMaxChunks}}

\* the futures whose task a worker thread is executing
PipeRunning == {f \in 1..work.total :
                   work.task[f] \in {"processing", "processed", "reporting"}}

PipePending == {f \in 1..work.total : work.task[f] = "pending"}

PipeEvent(status, f, current) == [status |-> status, file |-> f,
                                  current |-> current, total |-> work.total]

\* self._processed_count = 0; total_files = len(...); all_chunks = []; every
\* file is submitted to the executor before the first result is collected
InitPipeline ==
    /\ disk = [p \in Paths |-> NoFile]
    /\ indexer = NewIndexer(EmbeddingDim)
    /\ artifacts = NoArtifacts
    /\ store = EmptyStore
    /\ committed = EmptyStore
    /\ pc = "idle"
    /\ \E n \in 1..PipeMaxFiles, incremental \in BOOLEAN :
         work = [incremental |-> incremental, total |-> n,
                 task |-> [f \in 1..n |-> "pending"],
                 result |-> [f \in 1..n |-> None],
                 current |-> [f \in 1..n |-> 0],
                 _processed_count |-> 0, _progress_lock |-> 0,
                 out |-> <<>>, collected |-> {}, all_chunks |-> <<>>,
                 main |-> "as_completed", cancel_next |-> 0, stopped |-> FALSE]
    /\ last = NoObs
    /\ crashes = 0

\* a worker thread of the pool takes the next work item from the queue (in
\* submission order) and starts _process_file_with_progress for it
WorkerStart ==
    \E f \in PipePending :
        /\ \A g \in PipePending : f <= g
        /\ Cardinality(PipeRunning) < NumWorkers
        /\ work' = [work EXCEPT !.task[f] = "processing"]
        /\ last' = [NoObs EXCEPT !.op = "start", !.repeat = work.stopped]
        /\ UNCHANGED <<disk, indexer, store, committed, artifacts, pc, crashes>>

\* chunks = self.process_file(file_path): returns a chunk list or raises
WorkerProcessFile ==
    \E f \in 1..work.total, outcome \in Outcomes :
        /\ work.task[f] = "processing"
        /\ work' = [work EXCEPT !.task[f] = "processed",
                                !.result[f] = File(outcome)]
        /\ last' = [NoObs EXCEPT !.op = "process_file", !.raised = outcome.raised]
        /\ UNCHANGED <<disk, indexer, store, committed, artifacts, pc, crashes>>

WorkerLock_no_lock ==
    \E f \in 1..work.total :
        /\ work.task[f] = "processed"
        /\ work' = [work EXCEPT !.task[f] = "reporting",
                                !._progress_lock = f,
                                !._processed_count = @ + 1,
                                !.current[f] = work._processed_count + 1]
        /\ last' = [NoObs EXCEPT !.op = "lock"]
        /\ UNCHANGED <<disk, indexer, store, committed, artifacts, pc, crashes>>

\* with self._progress_lock: self._processed_count += 1; current = ...
\* (both the success path and the except path increment under the lock)
WorkerLock ==
    \E f \in 1..work.total :
        /\ work.task[f] = "processed"
        /\ work._progress_lock = 0
        /\ work' = [work EXCEPT !.task[f] = "reporting",
                                !._progress_lock = f,
                                !._processed_count = @ + 1,
                                !.current[f] = work._processed_count + 1]
        /\ last' = [NoObs EXCEPT !.op = "lock"]
        /\ UNCHANGED <<disk, indexer, store, committed, artifacts, pc, crashes>>

\* print(...) inside the with block, then the lock is released and the task
\* ends: return chunks, or raise.  processing_file carries current and total,
\* the processing_error of the except path carries no current (0 here).
WorkerReport ==
    \E f \in 1..work.total :
        /\ work.task[f] = "reporting"
        /\ work' = [work EXCEPT
               !.task[f] = "finished",
               !._progress_lock = IF @ = f THEN 0 ELSE @,
               !.out = Append(@, IF work.result[f][1].raised
                                 THEN PipeEvent("processing_error", f, 0)
                                 ELSE PipeEvent("processing_file", f, work.current[f]))]
        /\ last' = [NoObs EXCEPT !.op = "report", !.raised = work.result[f][1].raised]
        /\ UNCHANGED <<disk, indexer, store, committed, artifacts, pc, crashes>>

MainCollect_no_except ==
    \E f \in 1..work.total, stop \in IF work.incremental THEN BOOLEAN ELSE {FALSE} :
        /\ work.main = "as_completed"
        /\ work.task[f] = "finished"
        /\ f \notin work.collected
        /\ work' = IF stop
                   THEN [work EXCEPT !.main = "cancelling", !.stopped = TRUE,
                                     !.cancel_next = 1]
                   ELSE IF work.result[f][1].raised
                   THEN [work EXCEPT !.main = "raised"]
                   ELSE [work EXCEPT
                            !.collected = @ \cup {f},
                            !.all_chunks = @ \o FileChunks(f, work.result[f][1].n)]
        /\ last' = [NoObs EXCEPT !.op = IF stop THEN "stop" ELSE "collect", !.arg = File(f)]
        /\ UNCHANGED <<disk, indexer, store, committed, artifacts, pc, crashes>>

\* one iteration of `for future in as_completed(future_to_file)`: a finished
\* future is yielded; the incremental pipeline first polls the stop predicate
\* and, when it returns true, goes on to cancel; otherwise future.result()
\* extends all_chunks, or its exception is caught and reported
MainCollect ==
    \E f \in 1..work.total, stop \in IF work.incremental THEN BOOLEAN ELSE {FALSE} :
        /\ work.main = "as_completed"
        /\ work.task[f] = "finished"
        /\ f \notin work.collected
        /\ work' = IF stop
                   THEN [work EXCEPT !.main = "cancelling", !.stopped = TRUE,
                                     !.cancel_next = 1]
                   ELSE IF work.result[f][1].raised
                   THEN [work EXCEPT !.collected = @ \cup {f},
                                     !.out = Append(@, PipeEvent("processing_error", f, 0))]
                   ELSE [work EXCEPT
                            !.collected = @ \cup {f},
                            !.all_chunks = @ \o FileChunks(f, work.result[f][1].n)]
        /\ last' = [NoObs EXCEPT !.op = IF stop THEN "stop" ELSE "collect", !.arg = File(f)]
        /\ UNCHANGED <<disk, indexer, store, committed, artifacts, pc, crashes>>

\* for f in future_to_file: f.cancel(), one future per step in submission
\* order: a future whose task no worker has taken is cancelled, the others
\* are left alone; after the last one indexing_cancelled is printed and the
\* loop is left
MainCancel ==
    /\ work.main = "cancelling"
    /\ LET f == work.cancel_next
       IN work' = [work EXCEPT
              !.task[f] = IF @ = "pending" THEN "cancelled" ELSE @,
              !.cancel_next = @ + 1,
              !.main = IF f = work.total THEN "shutdown" ELSE @,
              !.out = IF f = work.total
                      THEN Append(@, PipeEvent("indexing_cancelled", 0, 0)) ELSE @]
    /\ last' = [NoObs EXCEPT !.op = "cancel"]
    /\ UNCHANGED <<disk, indexer, store, committed, artifacts, pc, crashes>>

\* leaving the with block joins the worker threads (shutdown(wait=True)),
\* then return all_chunks
MainReturn ==
    /\ \/ work.main = "shutdown"
       \/ work.main = "as_completed" /\ work.collected = 1..work.total
    /\ PipeRunning = {}
    /\ PipePending = {}
    /\ work' = [work EXCEPT !.main = "returned"]
    /\ last' = [NoObs EXCEPT !.op = "return", !.n_chunks = Len(work.all_chunks)]
    /\ UNCHANGED <<disk, indexer, store, committed, artifacts, pc, crashes>>

NextPipeline ==
    \/ WorkerStart
    \/ WorkerProcessFile
    \/ WorkerLock
    \/ WorkerReport
    \/ MainCollect
    \/ MainCancel
    \/ MainReturn

SpecPipeline == InitPipeline /\ [][NextPipeline]_vars

\* C26: in one JSON-mode pipeline run, under every interleaving of the worker
\* threads, the progress counter is incremented exactly once per file that
\* reached its report (success or failure), the current values emitted are
\* strictly increasing in output order and never exceed total, and the counter
\* equals total when every file has completed.
C26_ProgressCounter ==
    /\ work._processed_count =
           Cardinality({f \in 1..work.total : work.task[f] \in {"reporting", "finished"}})
    /\ \A i, j \in 1..Len(work.out) :
           (/\ i < j
            /\ work.out[i].status = "processing_file"
            /\ work.out[j].status = "processing_file")
           => work.out[i].current < work.out[j].current
    /\ \A i \in 1..Len(work.out) :
           work.out[i].status = "processing_file"
           => work.out[i].current \in 1..work.out[i].total
    /\ (\A f \in 1..work.total : work.task[f] = "finished")
           => work._processed_count = work.total

\* three files, all completed, one of them failed, and the two progress
\* events of the others came out against the submission order
C26_Witness ==
    /\ work.total = PipeMaxFiles
    /\ \A f \in 1..work.total : work.task[f] = "finished"
    /\ \E f \in 1..work.total : work.result[f][1].raised
    /\ \E i, j \in 1..Len(work.out) :
          /\ i < j
          /\ work.out[i].status = "processing_file"
          /\ work.out[j].status = "processing_file"
          /\ work.out[i].file > work.out[j].file

\* C27: whichever files fail in their worker, process_directory does not
\* raise, every file is still processed, and the chunk list it returns is
\* exactly the union of the chunk lists of the files that succeeded, each
\* file's chunks contiguous and in chunk_index order.
C27_UnionOfSucceeded ==
    /\ work.main # "raised"
    /\ (~work.incremental /\ work.main = "returned") =>
        /\ \A f \in 1..work.total : work.task[f] = "finished"
        /\ Range(work.all_chunks) =
               UNION {Range(FileChunks(f, work.result[f][1].n)) :
                         f \in {g \in 1..work.total : ~work.result[g][1].raised}}
        /\ Cardinality(Range(work.all_chunks)) = Len(work.all_chunks)
        /\ \A i, j \in 1..Len(work.all_chunks) :
               (i < j /\ work.all_chunks[i].file = work.all_chunks[j].file)
               => work.all_chunks[j].chunk_index - work.all_chunks[i].chunk_index = j - i

\* process_directory has returned for three files: one failed, the other two
\* gave chunks, collected against the submission order
C27_Witness ==
    /\ ~work.incremental
    /\ work.main = "returned"
    /\ work.total = PipeMaxFiles
    /\ \E f \in 1..work.total : work.result[f][1].raised
    /\ Len(work.all_chunks) = 2 * PipeMaxChunks
    /\ work.all_chunks[1].file > work.all_chunks[Len(work.all_chunks)].file

\* C28: in the incremental pipeline, once the stop predicate has returned
\* true, no file whose processing has not started is started afterwards
\* (files in progress finish, and the call returns after them).
C28_NoStartAfterStop ==
    [][work.stopped =>
         \A f \in 1..work.total :
             work.task[f] = "pending" => work'.task[f] # "processing"]_vars

(***************************************************************************)
(* Document pipeline: _create_chunks on the words of a text.  A word is    *)
(* its number of characters.                                               *)
(***************************************************************************)
MaxWords == 4
MaxChunkSize == 3
MaxRuns == 2

\* if len(chunk_text.strip()) < 50: continue
MinContent == 50

\* the words text.split() can give: a short one and a long one
WordLens == {4, 25}

RECURSIVE Sum(_)
Sum(ns) == IF ns = <<>> THEN 0 ELSE Head(ns) + Sum(Tail(ns))

\* len(" ".join(chunk_words)); the words hold no white space, so strip()
\* removes nothing
JoinLen(chunk_words) ==
    IF chunk_words = <<>> THEN 0 ELSE Sum(chunk_words) + Len(chunk_words) - 1

\* the body of the for loop from word offset i on: range(0, len(words),
\* chunk_size - chunk_overlap)
RECURSIVE CreateChunksFrom(_, _, _, _, _, _, _)
CreateChunksFrom(words, i, chunks, file_path, document_id, chunk_size, chunk_overlap) ==
    IF i >= Len(words) THEN chunks
    ELSE LET chunk_words == SubSeq(words, i + 1, Min(i + chunk_size, Len(words)))
             chunk == [content     |-> chunk_words,
                       metadata    |-> [file_path   |-> file_path,
                                        chunk_index |-> Len(chunks),
                                        start_index |-> i,
                                        end_index   |-> Min(i + chunk_size, Len(words))],
                       chunk_id    |-> ChunkId(document_id, i),
                       document_id |-> document_id]
         IN CreateChunksFrom(words, i + (chunk_size - chunk_overlap),
                             IF JoinLen(chunk_words) < MinContent
                             THEN chunks ELSE Append(chunks, chunk),
                             file_path, document_id, chunk_size, chunk_overlap)

CreateChunks_window_index(words, file_path, document_id, chunk_size, chunk_overlap) ==
    LET chunks == CreateChunksFrom(words, 0, <<>>, file_path, document_id,
                                   chunk_size, chunk_overlap)
    IN [k \in 1..Len(chunks) |->
           [chunks[k] EXCEPT !.metadata.chunk_index =
                chunks[k].metadata.start_index \div (chunk_size - chunk_overlap)]]

\* _create_chunks(text, file_path, document_id) of a processor built with
\* chunk_size and chunk_overlap
CreateChunks(words, file_path, document_id, chunk_size, chunk_overlap) ==
    CreateChunksFrom(words, 0, <<>>, file_path, document_id, chunk_size, chunk_overlap)

Texts == UNION {[1..n -> WordLens] : n \in 0..MaxWords}

\* a processor with chunk_size > chunk_overlap >= 0 and a text to chunk
InitChunk ==
    /\ disk = [p \in Paths |-> NoFile]
    /\ indexer = NewIndexer(EmbeddingDim)
    /\ artifacts = NoArtifacts
    /\ store = EmptyStore
    /\ committed = EmptyStore
    /\ pc = "idle"
    /\ \E words \in Texts, file_path \in Paths,
          chunk_size \in 1..MaxChunkSize, chunk_overlap \in 0..(MaxChunkSize - 1) :
         /\ chunk_size > chunk_overlap
         /\ work = [words |-> words, file_path |-> file_path,
                    document_id |-> _generate_document_id(file_path, IdxStat),
                    chunk_size |-> chunk_size, chunk_overlap |-> chunk_overlap,
                    runs |-> 0, previous |-> <<>>]
    /\ last = NoObs
    /\ crashes = 0

\* one call of _create_chunks; the result of the call before it is kept
CreateChunksCall ==
    /\ work.runs < MaxRuns
    /\ work' = [work EXCEPT !.runs = @ + 1, !.previous = last.results]
    /\ last' = [NoObs EXCEPT
                   !.op = "_create_chunks",
                   !.results = CreateChunks(work.words, work.file_path, work.document_id,
                                            work.chunk_size, work.chunk_overlap)]
    /\ UNCHANGED <<disk, indexer, store, committed, artifacts, pc, crashes>>

NextChunk == CreateChunksCall

SpecChunk == InitChunk /\ [][NextChunk]_vars

\* C29: for every text and chunk_size > chunk_overlap >= 0, the word ranges
\* [start_index, end_index) of the returned chunks cover every word position
\* of the text, and no returned chunk has less than 50 characters of content.
C29_Coverage ==
    last.op = "_create_chunks" =>
        /\ \A w \in 0..(Len(work.words) - 1) :
               \E k \in 1..Len(last.results) :
                   /\ last.results[k].metadata.start_index <= w
                   /\ w < last.results[k].metadata.end_index
        /\ \A k \in 1..Len(last.results) :
               JoinLen(last.results[k].content) >= MinContent

SearchMaxMtime == 2
SearchMaxVectors == 2

SearchStats == {[mtime |-> m, size |-> 1] : m \in 1..SearchMaxMtime}

SearchChunks == UNION {Range(_create_chunks(p, stat)) : p \in Paths, stat \in SearchStats}

\* the query embeddings: those of the texts the chunks hold
SearchQueries == {Embedding(ChunkContent(stat, 0), EmbeddingDim) : stat \in SearchStats}

\* add_documents with the chunks of one file version
SearchAddDocuments ==
    \E chunk \in SearchChunks :
      LET chunks == <<chunk>> IN
        /\ Len(indexer.chunks) + Len(chunks) <= SearchMaxVectors
        /\ indexer' = add_documents(indexer, chunks,
                                    generate_embeddings(Contents(chunks), EmbeddingDim))
        /\ last' = [NoObs EXCEPT !.op = "add_documents", !.n_chunks = Len(chunks)]
        /\ UNCHANGED <<disk, store, committed, artifacts, pc, work, crashes>>

SearchRemoveDocument ==
    \E chunk \in SearchChunks :
        /\ indexer' = remove_document(indexer, chunk.document_id)
        /\ last' = [NoObs EXCEPT !.op = "remove_document", !.arg = chunk.document_id]
        /\ UNCHANGED <<disk, store, committed, artifacts, pc, work, crashes>>

\* results = indexer.search(query_embedding, k)
SearchCall ==
    \E query_embedding \in SearchQueries, k \in 1..(SearchMaxVectors + 1) :
        /\ last' = [NoObs EXCEPT !.op = "indexer_search",
                                 !.arg = File(query_embedding),
                                 !.n_chunks = k,
                                 !.raised = indexer_search_raises(indexer, query_embedding),
                                 !.results = indexer_search(indexer, query_embedding, k)]
        /\ UNCHANGED <<disk, indexer, store, committed, artifacts, pc, work, crashes>>

NextSearch == SearchAddDocuments \/ SearchRemoveDocument \/ SearchCall

SpecSearch == InitCommon /\ [][NextSearch]_vars

\* C31: FAISSIndexer.search on an index with n stored chunks and k >= 1
\* returns exactly min(k, n) pairs in order of non-decreasing distance (so of
\* non-increasing score 1 / (1 + distance)), the r-th of them no farther than
\* all but r - 1 stored vectors, each with the chunk stored at the position of
\* its vector; on an empty index it returns the empty list and does not raise.
C31_SearchResults ==
    last.op = "indexer_search" =>
        LET results == last.results
            D(i) == L2(indexer.index[i], last.arg[1], 1)
        IN /\ ~last.raised
           /\ Len(results) = Min(last.n_chunks, Len(indexer.chunks))
           /\ \A r \in 1..(Len(results) - 1) : results[r].distance <= results[r + 1].distance
           /\ \A r \in 1..Len(results) :
                 /\ \E i \in 1..Len(indexer.index) :
                        D(i) = results[r].distance /\ indexer.chunks[i] = results[r].chunk
                 /\ Cardinality({i \in 1..Len(indexer.index) : D(i) < results[r].distance}) < r

\* a search that had to cut (k below n) and to reorder: the vector returned
\* is nearer than the first one stored
C31_Witness ==
    /\ last.op = "indexer_search"
    /\ last.n_chunks < Len(indexer.chunks)
    /\ Len(last.results) = last.n_chunks
    /\ last.results[1].chunk # indexer.chunks[1]
    /\ last.results[1].distance < L2(indexer.index[1], last.arg[1], 1)

\* C32: a search whose query is empty or only white space returns an empty
\* result list, answered with success=true at the dispatcher, without calling
\* the embedding capability and without reading or changing the Vector Index.
C32_BlankQuery ==
    [][(last'.op = "search" /\ last'.arg[1].blank) =>
          /\ last'.results = <<>>
          /\ ~last'.raised
          /\ last'.embed_calls = 0
          /\ last'.index_reads = 0
          /\ UNCHANGED <<indexer, artifacts, store, committed>>
          /\ \A i \in 1..Len(work'.handlers) :
                 (work'.handlers[i].action = "search" /\ work'.handlers[i].phase = "done")
                 => Response(work'.handlers[i]).success]_vars

\* a blank query answered while the Vector Index holds vectors
C32_Witness ==
    /\ last.op = "search"
    /\ last.arg[1].blank
    /\ indexer.index # <<>>
    /\ \E i \in 1..Len(work.handlers) : Response(work.handlers[i]).success

(***************************************************************************)
(* SpecEmbed: one index_directory_incremental call with the embedding      *)
(* cache, from every small Vector Index, disk and cache                    *)
(***************************************************************************)

\* the texts a chunk can hold here
EmbedTexts == {ChunkContent(stat, 0) : stat \in SearchStats}

\* the cache directory: the embedding pickled under the key of each text
EmbedCaches == {[t \in S |-> Embedding(t, EmbeddingDim)] : S \in SUBSET EmbedTexts}

RECURSIVE UncachedFrom(_, _, _)
\* uncached_indices of _load_cached_embeddings, as positions from i on
UncachedFrom(texts, cache, i) ==
    IF i > Len(texts) THEN <<>>
    ELSE IF texts[i] \in DOMAIN cache THEN UncachedFrom(texts, cache, i + 1)
         ELSE <<i>> \o UncachedFrom(texts, cache, i + 1)

generate_embeddings_cached_compact(texts, cache, dim) ==
    LET uncached_indices == UncachedFrom(texts, cache, 1)
        uncached_texts == [k \in 1..Len(uncached_indices) |-> texts[uncached_indices[k]]]
        new_embeddings == generate_embeddings(uncached_texts, dim)
        hits == SelectSeq(texts, LAMBDA t : t \in DOMAIN cache)
    IN [embeddings |-> new_embeddings \o [k \in 1..Len(hits) |-> cache[hits[k]]],
        computed |-> Len(uncached_texts),
        cache |-> [t \in DOMAIN cache \cup Range(uncached_texts) |->
                      IF t \in DOMAIN cache THEN cache[t] ELSE Embedding(t, dim)]]

\* generate_embeddings with use_cache: the cached embeddings stay at their
\* positions, the texts without one are embedded in one call and each new
\* embedding is put at the position of its text; the cache gains them
generate_embeddings_cached(texts, cache, dim) ==
    LET uncached_indices == UncachedFrom(texts, cache, 1)
        uncached_texts == [k \in 1..Len(uncached_indices) |-> texts[uncached_indices[k]]]
        new_embeddings == generate_embeddings(uncached_texts, dim)
    IN [embeddings |->
            [i \in 1..Len(texts) |->
                IF texts[i] \in DOMAIN cache THEN cache[texts[i]]
                ELSE new_embeddings[CHOOSE k \in 1..Len(uncached_indices) :
                                        uncached_indices[k] = i]],
        computed |-> Len(uncached_texts),
        cache |-> [t \in DOMAIN cache \cup Range(uncached_texts) |->
                      IF t \in DOMAIN cache THEN cache[t] ELSE Embedding(t, dim)]]

InitEmbed ==
    /\ disk \in [Paths -> {NoFile} \cup {File(stat) : stat \in SearchStats}]
    /\ indexer \in ClearIndexers
    /\ artifacts = NoArtifacts
    /\ store = EmptyStore
    /\ committed = EmptyStore
    /\ pc = "idle"
    /\ \E cache \in EmbedCaches : work = [cache |-> cache]
    /\ last = NoObs
    /\ crashes = 0

\* DocumentSearchEngine.index_directory_incremental, the embedding cache
\* included
EmbedIndexDirectoryIncremental ==
    LET change_set == get_changed_files(store, disk, Dir, supported_extensions, text_filenames)
    IN \E order \in Perms(files_to_process(change_set)) :
         LET chunks == all_chunks(disk, order)
             gen == generate_embeddings_cached(Contents(chunks), work.cache,
                                               indexer.embedding_dim)
             run == index_directory_incremental_from(indexer, store, committed, artifacts,
                                                     disk, order, gen.embeddings)
         IN /\ indexer' = run.indexer
            /\ store' = run.store
            /\ committed' = run.committed
            /\ artifacts' = run.artifacts
            /\ work' = [cache |-> IF chunks = <<>> THEN work.cache ELSE gen.cache]
            /\ last' = [NoObs EXCEPT
                          !.op = "index_directory_incremental",
                          !.raised = run.raised,
                          !.results = chunks,
                          !.n_chunks = Len(indexer.chunks),
                          !.embed_calls = gen.computed,
                          !.inserted = Len(run.indexer.index) - Len(indexer.index),
                          !.persisted = run.completed]
            /\ UNCHANGED <<disk, pc, crashes>>

NextEmbed == EmbedIndexDirectoryIncremental

SpecEmbed == InitEmbed /\ [][NextEmbed]_vars

\* C33: within one index_directory_incremental call that inserts chunks
\* c_0..c_(m-1) into a Vector Index holding n chunks, the Vector Index stores
\* c_i at position n+i together with the embedding of c_i's content (cached
\* or newly computed), and the ChunkRecord written for c_i has vector_index
\* n+i.
C33_PositionsAndPairing ==
    (last.op = "index_directory_incremental" /\ ~last.raised) =>
        LET chunks == last.results
            n == last.n_chunks
        IN /\ Len(indexer.chunks) = n + Len(chunks)
           /\ Len(indexer.index) = n + Len(chunks)
           /\ \A i \in 1..Len(chunks) :
                 /\ indexer.chunks[n + i] = chunks[i]
                 /\ indexer.index[n + i] = Embedding(chunks[i].content, indexer.embedding_dim)
                 /\ \E r \in store.chunks : r.chunk_id = chunks[i].chunk_id
                 /\ \A r \in store.chunks :
                        r.chunk_id = chunks[i].chunk_id => r.vector_index = n + i - 1

\* two chunks inserted behind stored ones, one embedding from the cache and
\* one newly computed
C33_Witness ==
    /\ last.op = "index_directory_incremental"
    /\ ~last.raised
    /\ last.n_chunks > 0
    /\ Len(last.results) = 2
    /\ last.embed_calls = 1

\* C34: for every text and chunk_size > chunk_overlap >= 0, each chunk
\* returned by _create_chunks starts at a word offset that is a multiple of
\* step = chunk_size - chunk_overlap and spans at most chunk_size words,
\* clipped at the end of the text, and the chunk_index values are exactly
\* 0, 1, ..., count-1 in order, also when short chunks were dropped.
C34_OffsetsAndIndexes ==
    last.op = "_create_chunks" =>
        \A k \in 1..Len(last.results) :
            LET chunk == last.results[k]
                start_index == chunk.metadata.start_index
                end_index == chunk.metadata.end_index
            IN /\ start_index % (work.chunk_size - work.chunk_overlap) = 0
               /\ start_index < Len(work.words)
               /\ end_index = Min(start_index + work.chunk_size, Len(work.words))
               /\ chunk.content = SubSeq(work.words, start_index + 1, end_index)
               /\ chunk.metadata.chunk_index = k - 1
               /\ k > 1 => last.results[k - 1].metadata.start_index < start_index

\* two chunks returned after the first window of the text was dropped
C34_Witness ==
    /\ last.op = "_create_chunks"
    /\ Len(last.results) >= 2
    /\ last.results[1].metadata.start_index > 0
    /\ last.results[2].metadata.end_index = Len(work.words)

\* C35: with the same extension allow-list, the files get_changed_files
\* enumerates as current are the files process_directory selects for
\* processing, whether the text_filenames argument is supplied or omitted.
C35_SameEnumeration ==
    (last.op = "get_changed_files" /\ last.arg.extensions = supported_extensions) =>
        last.results.new_files \cup last.results.modified_files
            \cup last.results.unchanged_files
        = valid_files(disk, PathOf(last.arg.directory))

\* C36: after any sequence of index_directory, index_directory_incremental
\* and add_document calls, no two chunks stored in the Vector Index have the
\* same chunk_id (indexing an unchanged folder again stores no second copy).
C36_NoDuplicateChunks ==
    \A i, j \in 1..Len(indexer.chunks) :
        i # j => indexer.chunks[i].chunk_id # indexer.chunks[j].chunk_id

(***************************************************************************)
(* SpecSibling: change detection and incremental indexing of directory d   *)
(* next to a directory whose name begins with the same characters          *)
(***************************************************************************)

\* a file in d and a file in the sibling directory de
SiblingPaths == {<<"d", "/", "a", ".txt">>, <<"d", "e", "/", "a", ".txt">>}

\* catalogs as earlier incremental runs on d and on de leave them
SiblingCatalogs ==
    {[files |-> files, chunks |-> StoreChunkRows(files), folders |-> {}] :
        files \in {fs \in SUBSET {FileRow(p, stat, _generate_document_id(p, stat), None) :
                                     p \in SiblingPaths, stat \in SearchStats} :
                      \A p \in SiblingPaths : Cardinality(RowsOf([files |-> fs], p)) <= 1}}

InitSibling ==
    /\ disk \in [SiblingPaths -> {NoFile} \cup {File(stat) : stat \in SearchStats}]
    /\ store \in SiblingCatalogs
    /\ committed = store
    /\ indexer = NewIndexer(EmbeddingDim)
    /\ artifacts = NoArtifacts
    /\ pc = "idle"
    /\ work = NoWork
    /\ last = NoObs
    /\ crashes = 0

\* metadata_store.get_changed_files(d, supported_extensions, text_filenames)
SibGetChangedFiles ==
    /\ last' = [NoObs EXCEPT
                  !.op = "get_changed_files",
                  !.arg = [directory |-> Dir],
                  !.results = get_changed_files(store, disk, Dir, supported_extensions,
                                                text_filenames)]
    /\ UNCHANGED <<disk, indexer, store, committed, artifacts, pc, work, crashes>>

\* index_directory_incremental(d)
SibIndexDirectoryIncremental ==
    LET change_set == get_changed_files(store, disk, Dir, supported_extensions, text_filenames)
    IN \E order \in Perms(files_to_process(change_set)) :
         LET run == index_directory_incremental(indexer, store, committed, artifacts,
                                                disk, order)
         IN /\ Len(indexer.chunks) + Len(run.chunks) <= MaxVectors
            /\ indexer' = run.indexer
            /\ store' = run.store
            /\ committed' = run.committed
            /\ artifacts' = run.artifacts
            /\ last' = [NoObs EXCEPT !.op = "index_directory_incremental",
                                     !.raised = run.raised,
                                     !.deleted = run.deleted,
                                     !.persisted = run.completed]
            /\ UNCHANGED <<disk, pc, work, crashes>>

NextSibling == SibGetChangedFiles \/ SibIndexDirectoryIncremental

SpecSibling == InitSibling /\ [][NextSibling]_vars

\* C37: every path get_changed_files(dir, ...) reports in deleted_files is a
\* FileRecord path inside dir whose file no longer exists on disk; the record
\* of an existing file, or of a file in a sibling directory whose name starts
\* with the characters of dir, is never reported (so index_directory_incremental
\* never removes the catalog entry of an existing file).
C37_DeletedAreGone ==
    last.op = "get_changed_files" =>
        \A p \in last.results.deleted_files :
            /\ RowsOf(store, p) # {}
            /\ IsUnder(PathOf(last.arg.directory), p)
            /\ disk[p] = NoFile

(***************************************************************************)
(* SpecCatalog: a MetadataStore driven through add_file, update_file,      *)
(* remove_file and clear_all                                               *)
(***************************************************************************)

\* str(uuid.uuid4()): an id unlike every id derived from a path and its stat
uuid4(file_path) == <<file_path, 0, 0>>

\* add_file: INSERT OR REPLACE of the FileRecord, then commit; the chunks
\* table is not touched
add_file(st, file_path, content_hash, stat, document_id) ==
    LET id == IF document_id = None THEN uuid4(file_path) ELSE document_id[1]
    IN [store |-> [st EXCEPT !.files = (st.files \ RowsOf(st, file_path))
                                        \cup {FileRow(file_path, stat, id, content_hash)}],
        document_id |-> id]

InitCatalog ==
    /\ disk \in [StorePaths -> {NoFile} \cup {File(stat) : stat \in SearchStats}]
    /\ store = EmptyStore
    /\ committed = EmptyStore
    /\ indexer = NewIndexer(EmbeddingDim)
    /\ artifacts = NoArtifacts
    /\ pc = "idle"
    /\ work = NoWork
    /\ last = NoObs
    /\ crashes = 0

CatAddFile ==
    \E file_path \in StorePaths, stat \in SearchStats, content_hash \in {None, File("h1")},
       given \in BOOLEAN :
        LET a == add_file(store, file_path, content_hash, stat,
                          IF given THEN File(_generate_document_id(file_path, stat))
                          ELSE None)
        IN /\ store' = a.store
           /\ committed' = a.store
           /\ last' = [NoObs EXCEPT !.op = "add_file", !.arg = [file_path |-> file_path],
                                    !.results = File(a.document_id)]
           /\ UNCHANGED <<disk, indexer, artifacts, pc, work, crashes>>

\* update_file with its commit; a call that raises commits nothing
CatUpdateFile ==
    \E file_path \in StorePaths, chunk_ids \in TxChunkLists :
        LET stat == IF disk[file_path] = NoFile THEN [mtime |-> 0, size |-> 0]
                    ELSE disk[file_path][1]
            document_id == _generate_document_id(file_path, stat)
            vector_indices == [k \in 1..Len(chunk_ids) |-> k - 1]
            u == update_file(store, disk, file_path, document_id, chunk_ids, vector_indices)
        IN /\ store' = u.store
           /\ committed' = IF u.raised THEN committed ELSE u.store
           /\ last' = [NoObs EXCEPT !.op = "update_file", !.raised = u.raised,
                                    !.arg = [file_path |-> file_path]]
           /\ UNCHANGED <<disk, indexer, artifacts, pc, work, crashes>>

CatRemoveFile ==
    \E file_path \in StorePaths :
        LET r == remove_file(store, file_path)
        IN /\ store' = r.store
           /\ committed' = IF r.document_id = None THEN committed ELSE r.store
           /\ last' = [NoObs EXCEPT !.op = "remove_file", !.arg = [file_path |-> file_path],
                                    !.results = r.document_id]
           /\ UNCHANGED <<disk, indexer, artifacts, pc, work, crashes>>

CatClearAll ==
    /\ store' = clear_all(store)
    /\ committed' = clear_all(store)
    /\ last' = [NoObs EXCEPT !.op = "clear_all"]
    /\ UNCHANGED <<disk, indexer, artifacts, pc, work, crashes>>

NextCatalog == CatAddFile \/ CatUpdateFile \/ CatRemoveFile \/ CatClearAll

SpecCatalog == InitCatalog /\ [][NextCatalog]_vars

\* C38: after any sequence of add_file, update_file, remove_file and
\* clear_all, every ChunkRecord's document_id is the document_id of some
\* FileRecord and every file_path has at most one FileRecord.
C38_NoOrphanChunks ==
    /\ \A c \in store.chunks : \E f \in store.files : f.document_id = c.document_id
    /\ \A p \in StorePaths : Cardinality(RowsOf(store, p)) <= 1

\* C39: if update_file raises, the catalog seen by later operations on the
\* same MetadataStore, and committed by any later commit, is the same as
\* before the call.
C39_RaiseLeavesCatalog ==
    [][(last'.op = "update_file" /\ last'.raised) => store' = store]_vars

(***************************************************************************)
(* SpecPartial: index_directory_incremental calls that collect only part   *)
(* of the pipeline's results (stop predicate) and during which files of    *)
(* the directory may be deleted by other programs                          *)
(***************************************************************************)

\* the versions a call processed: each file with the document_id of the
\* stat the pipeline read
Versions(dsk, files) ==
    {[file_path |-> p, document_id |-> _generate_document_id(p, dsk[p][1])] : p \in files}

\* one call: `collected` are the files whose results as_completed handed
\* over before the stop predicate cut the loop short, `gone` the files that
\* were deleted after the pipeline read them and before the update_file loop
PartIndexDirectoryIncremental ==
    /\ pc = "idle"
    /\ LET change_set == get_changed_files(store, disk, Dir, supported_extensions, text_filenames)
       IN \E collected \in SUBSET files_to_process(change_set) :
          \E order \in Perms(collected), gone \in SUBSET collected :
            LET dsk_record == [p \in Paths |-> IF p \in gone THEN NoFile ELSE disk[p]]
                chunks == all_chunks(disk, order)
                run == index_directory_incremental_on(
                           indexer, store, committed, artifacts, disk, dsk_record, order,
                           generate_embeddings(Contents(chunks), indexer.embedding_dim))
            IN /\ Len(indexer.chunks) + Len(chunks) <= MaxVectors
               /\ indexer' = run.indexer
               /\ store' = run.store
               /\ committed' = run.committed
               /\ artifacts' = run.artifacts
               /\ disk' = dsk_record
               /\ last' = [NoObs EXCEPT
                             !.op = "index_directory_incremental",
                             !.raised = run.raised,
                             !.arg = Versions(disk, collected),
                             !.results = chunks,
                             !.n_chunks = Len(indexer.chunks),
                             !.vanished = gone,
                             !.inserted = Len(run.indexer.index) - Len(indexer.index),
                             !.persisted = run.completed]
               /\ UNCHANGED <<pc, work, crashes>>

NextPartial ==
    \/ WriteFile
    \/ DeleteFile
    \/ PartIndexDirectoryIncremental

SpecPartial == InitCommon /\ [][NextPartial]_vars

\* the positions in the call's chunk list of the chunks of one file
C40_Mine(file_path) ==
    {i \in 1..Len(last.results) : last.results[i].metadata.file_path = file_path}

\* those of them the Vector Index holds at the position the call gave them
C40_Inserted(file_path) ==
    {i \in C40_Mine(file_path) :
        /\ last.n_chunks + i <= Len(indexer.chunks)
        /\ indexer.chunks[last.n_chunks + i] = last.results[i]}

C40_FileRecorded(v) ==
    \E r \in store.files : r.file_path = v.file_path /\ r.document_id = v.document_id

C40_ChunkRecords(v) == {c.chunk_id : c \in {x \in store.chunks : x.document_id = v.document_id}}

\* C40: within one index_directory_incremental call, including a call cut
\* short by the stop predicate or in which some files fail, every processed
\* file version is all-or-nothing: either all its chunks are in the Vector
\* Index and its FileRecord and ChunkRecords are recorded, or none of its
\* chunks are inserted and no record is written for it.
C40_AllOrNothing ==
    last.op = "index_directory_incremental" =>
        \A v \in last.arg :
            \/ /\ C40_Mine(v.file_path) # {}
               /\ C40_Inserted(v.file_path) = C40_Mine(v.file_path)
               /\ C40_FileRecorded(v)
               /\ C40_ChunkRecords(v)
                    = {last.results[i].chunk_id : i \in C40_Mine(v.file_path)}
            \/ /\ C40_Inserted(v.file_path) = {}
               /\ ~C40_FileRecorded(v)
               /\ C40_ChunkRecords(v) = {}

\* the same for the calls during which no file was deleted
C40_StableFilesystem ==
    (last.op = "index_directory_incremental" /\ last.vanished = {}) =>
        \A v \in last.arg :
            \/ /\ C40_Mine(v.file_path) # {}
               /\ C40_Inserted(v.file_path) = C40_Mine(v.file_path)
               /\ C40_FileRecorded(v)
               /\ C40_ChunkRecords(v)
                    = {last.results[i].chunk_id : i \in C40_Mine(v.file_path)}
            \/ /\ C40_Inserted(v.file_path) = {}
               /\ ~C40_FileRecorded(v)
               /\ C40_ChunkRecords(v) = {}

====
